---------------------------- MODULE Spec2Model ----------------------------
(***************************************************************************)
(* Model of tools/lsp_tool/client.py (class LspClient): one TCP socket to  *)
(* an LSP server, JSON-RPC messages framed by a Content-Length header.     *)
(*                                                                         *)
(* Text and bytes are sequences of one-character strings.  The only        *)
(* non-ASCII code point of the model is written "U+00E9"; its UTF-8        *)
(* encoding is the two bytes "xC3" "xA9".                                  *)
(***************************************************************************)
EXTENDS Integers, Sequences, FiniteSets, TLC

(***************************************************************************)
(* Bounds of the model.                                                    *)
(***************************************************************************)
\* API calls (connect, disconnect, send_request, send_notification) per run
\* of Spec, and per run of SpecFrames.
MaxCalls == 5
MaxFrameCalls == 2

(***************************************************************************)
(* Python str / bytes helpers.                                             *)
(***************************************************************************)
Min(S) == CHOOSE m \in S : \A n \in S : m <= n

\* str.startswith(pat), at offset i (1-based).
StartsWithAt(s, pat, i) ==
    /\ i >= 1
    /\ i + Len(pat) - 1 <= Len(s)
    /\ SubSeq(s, i, i + Len(pat) - 1) = pat

StartsWith(s, pat) == StartsWithAt(s, pat, 1)

\* str.find(pat) from offset i, 1-based; 0 when pat does not occur.
Find(s, pat, i) ==
    LET C == {j \in i..(Len(s) - Len(pat) + 1) : StartsWithAt(s, pat, j)}
    IN  IF C = {} THEN 0 ELSE Min(C)

\* `pat in s`
Contains(s, pat) == Find(s, pat, 1) # 0

\* str.split(sep): the pieces between the occurrences of sep, left to right.
RECURSIVE Split(_, _)
Split(s, sep) ==
    LET i == Find(s, sep, 1)
    IN  IF i = 0 THEN <<s>>
        ELSE <<SubSeq(s, 1, i - 1)>> \o Split(SubSeq(s, i + Len(sep), Len(s)), sep)

Whitespace == {" ", "\t", "\r", "\n"}

\* str.strip(): leading and trailing whitespace removed.
Strip(s) ==
    LET keep == {i \in 1..Len(s) : s[i] \notin Whitespace}
    IN  IF keep = {} THEN <<>>
        ELSE SubSeq(s, Min(keep), CHOOSE m \in keep : \A n \in keep : n <= m)

DigitChars == <<"0", "1", "2", "3", "4", "5", "6", "7", "8", "9">>

IsDigit(c) == \E i \in 1..10 : DigitChars[i] = c

DigitVal(c) == (CHOOSE i \in 1..10 : DigitChars[i] = c) - 1

RECURSIVE DigitsVal(_)
DigitsVal(s) ==
    IF s = <<>> THEN 0
    ELSE 10 * DigitsVal(SubSeq(s, 1, Len(s) - 1)) + DigitVal(s[Len(s)])

\* int(s) for a str: surrounding whitespace, an optional sign, decimal digits.
\* [ok |-> FALSE] stands for ValueError.
PyInt(s) ==
    LET t    == Strip(s)
        sign == IF t # <<>> /\ t[1] \in {"+", "-"} THEN 1 ELSE 0
        d    == SubSeq(t, sign + 1, Len(t))
    IN  IF d = <<>> \/ \E i \in 1..Len(d) : ~IsDigit(d[i])
        THEN [ok |-> FALSE, val |-> 0]
        ELSE [ok |-> TRUE,
              val |-> IF sign = 1 /\ t[1] = "-" THEN 0 - DigitsVal(d) ELSE DigitsVal(d)]

\* str(n) for an int.
RECURSIVE NatToChars(_)
NatToChars(n) ==
    IF n < 10 THEN <<DigitChars[n + 1]>>
    ELSE NatToChars(n \div 10) \o <<DigitChars[(n % 10) + 1]>>

IntToChars(n) == IF n < 0 THEN <<"-">> \o NatToChars(0 - n) ELSE NatToChars(n)

\* str.encode('utf-8'), on the characters lo..hi of s.
EncodeChar(c) == IF c = "U+00E9" THEN <<"xC3", "xA9">> ELSE <<c>>

RECURSIVE Utf8EncodeRange(_, _, _)
Utf8EncodeRange(s, lo, hi) ==
    IF lo > hi THEN <<>>
    ELSE IF lo = hi THEN EncodeChar(s[lo])
    ELSE LET mid == (lo + hi) \div 2
         IN  Utf8EncodeRange(s, lo, mid) \o Utf8EncodeRange(s, mid + 1, hi)

Utf8Encode(s) == Utf8EncodeRange(s, 1, Len(s))

\* bytes.decode('utf-8'); [ok |-> FALSE] stands for UnicodeDecodeError: a lead
\* byte without its continuation byte, or a continuation byte without its lead.
Utf8Decode(b) ==
    LET valid == \A i \in 1..Len(b) :
                    /\ b[i] = "xC3" => (i < Len(b) /\ b[i + 1] = "xA9")
                    /\ b[i] = "xA9" => (i > 1 /\ b[i - 1] = "xC3")
                    /\ b[i] # "U+00E9"
        lead(c) == c # "xA9"
        kept  == SelectSeq(b, lead)
    IN  IF valid
        THEN [ok |-> TRUE,
              val |-> [i \in 1..Len(kept) |->
                         IF kept[i] = "xC3" THEN "U+00E9" ELSE kept[i]]]
        ELSE [ok |-> FALSE, val |-> <<>>]

(***************************************************************************)
(* Python values that travel as JSON: [t |-> tag, v |-> payload].  A dict  *)
(* is the sequence of its items [k |-> key, v |-> value] in insertion      *)
(* order, keys unique.                                                     *)
(***************************************************************************)
PyNone == [t |-> "null", v |-> 0]
PyBool(b) == [t |-> "bool", v |-> b]
PyIntV(n) == [t |-> "int", v |-> n]
PyStr(s) == [t |-> "str", v |-> s]
PyList(xs) == [t |-> "list", v |-> xs]
PyDict(items) == [t |-> "dict", v |-> items]

\* Truth value of a Python object (`params or {}`, `if result.get("error")`).
Truthy(x) ==
    CASE x.t = "null" -> FALSE
      [] x.t = "bool" -> x.v
      [] x.t = "int"  -> x.v # 0
      [] OTHER        -> x.v # <<>>

\* `key in d`
HasKey(d, key) == \E i \in 1..Len(d.v) : d.v[i].k = key

\* d.get(key): None when the key is absent.
DictGet(d, key) ==
    IF HasKey(d, key)
    THEN d.v[CHOOSE i \in 1..Len(d.v) : d.v[i].k = key].v
    ELSE PyNone

\* d[key] = value on the item sequence: a present key keeps its place.
DictSet(items, key, value) ==
    IF \E i \in 1..Len(items) : items[i].k = key
    THEN [i \in 1..Len(items) |->
            IF items[i].k = key THEN [k |-> key, v |-> value] ELSE items[i]]
    ELSE Append(items, [k |-> key, v |-> value])

(***************************************************************************)
(* json.dumps(obj) with its defaults: ensure_ascii=True, separators        *)
(* (', ', ': ').                                                           *)
(***************************************************************************)
Chr_u00e9 == <<"\\", "u", "0", "0", "e", "9">>

\* Faulty variant: ensure_ascii=False, a non-ASCII character is written as it is.
EscapeChar_Raw(c) ==
    CASE c = "\""     -> <<"\\", "\"">>
      [] c = "\\"     -> <<"\\", "\\">>
      [] c = "\n"     -> <<"\\", "n">>
      [] c = "\r"     -> <<"\\", "r">>
      [] c = "\t"     -> <<"\\", "t">>
      [] OTHER        -> <<c>>

EscapeChar(c) ==
    CASE c = "\""     -> <<"\\", "\"">>
      [] c = "\\"     -> <<"\\", "\\">>
      [] c = "\n"     -> <<"\\", "n">>
      [] c = "\r"     -> <<"\\", "r">>
      [] c = "\t"     -> <<"\\", "t">>
      [] c = "U+00E9" -> Chr_u00e9
      [] OTHER        -> <<c>>

RECURSIVE EscapeRange(_, _, _)
EscapeRange(s, lo, hi) ==
    IF lo > hi THEN <<>>
    ELSE IF lo = hi THEN EscapeChar(s[lo])
    ELSE LET mid == (lo + hi) \div 2
         IN  EscapeRange(s, lo, mid) \o EscapeRange(s, mid + 1, hi)

EscapeStr(s) == EscapeRange(s, 1, Len(s))

DumpStr(s) == <<"\"">> \o EscapeStr(s) \o <<"\"">>

RECURSIVE JsonDumps(_), DumpItems(_), DumpElems(_)
JsonDumps(x) ==
    CASE x.t = "null" -> <<"n", "u", "l", "l">>
      [] x.t = "bool" -> IF x.v THEN <<"t", "r", "u", "e">>
                                ELSE <<"f", "a", "l", "s", "e">>
      [] x.t = "int"  -> IntToChars(x.v)
      [] x.t = "str"  -> DumpStr(x.v)
      [] x.t = "list" -> <<"[">> \o DumpElems(x.v) \o <<"]">>
      [] x.t = "dict" -> <<"{">> \o DumpItems(x.v) \o <<"}">>

DumpElems(xs) ==
    IF xs = <<>> THEN <<>>
    ELSE JsonDumps(xs[1])
         \o (IF Len(xs) > 1 THEN <<",", " ">> \o DumpElems(Tail(xs)) ELSE <<>>)

DumpItems(items) ==
    IF items = <<>> THEN <<>>
    ELSE DumpStr(items[1].k) \o <<":", " ">> \o JsonDumps(items[1].v)
         \o (IF Len(items) > 1 THEN <<",", " ">> \o DumpItems(Tail(items)) ELSE <<>>)

(***************************************************************************)
(* json.loads(text): null, true, false, integers, strings, arrays and      *)
(* objects.  A parse step returns [ok, val, pos], pos the index after the  *)
(* value; ok = FALSE stands for json.JSONDecodeError.                      *)
(***************************************************************************)
JsonFail == [ok |-> FALSE, val |-> PyNone, pos |-> 0]

\* The first index >= i that holds no JSON whitespace (Len(s) + 1 at the end).
SkipWs(s, i) == Min({j \in i..(Len(s) + 1) : j > Len(s) \/ s[j] \notin Whitespace})

\* The characters of a string literal whose opening quote is before index i.
RECURSIVE ScanStr(_, _, _)
ScanStr(s, i, acc) ==
    IF i > Len(s) THEN JsonFail
    ELSE IF s[i] = "\"" THEN [ok |-> TRUE, val |-> PyStr(acc), pos |-> i + 1]
    ELSE IF s[i] \in {"\n", "\r", "\t"} THEN JsonFail
    ELSE IF s[i] = "\\"
         THEN IF i + 1 > Len(s) THEN JsonFail
              ELSE IF s[i + 1] \in {"\"", "\\", "/"}
                   THEN ScanStr(s, i + 2, Append(acc, s[i + 1]))
              ELSE IF s[i + 1] = "n" THEN ScanStr(s, i + 2, Append(acc, "\n"))
              ELSE IF s[i + 1] = "r" THEN ScanStr(s, i + 2, Append(acc, "\r"))
              ELSE IF s[i + 1] = "t" THEN ScanStr(s, i + 2, Append(acc, "\t"))
              ELSE IF StartsWithAt(s, Chr_u00e9, i)
                   THEN ScanStr(s, i + 6, Append(acc, "U+00E9"))
              ELSE JsonFail
    ELSE ScanStr(s, i + 1, Append(acc, s[i]))

\* -?(0|[1-9][0-9]*) at index i.
ScanInt(s, i) ==
    LET neg  == s[i] = "-"
        d0   == IF neg THEN i + 1 ELSE i
        stop == Min({j \in d0..(Len(s) + 1) : j > Len(s) \/ ~IsDigit(s[j])})
        end  == IF d0 <= Len(s) /\ s[d0] = "0" THEN d0 + 1 ELSE stop
        n    == DigitsVal(SubSeq(s, d0, end - 1))
    IN  IF stop = d0 THEN JsonFail
        ELSE [ok |-> TRUE, val |-> PyIntV(IF neg THEN 0 - n ELSE n), pos |-> end]

RECURSIVE ParseValue(_, _), ParseElems(_, _, _), ParseItems(_, _, _)
ParseValue(s, i0) ==
    LET i == SkipWs(s, i0)
    IN  IF i > Len(s) THEN JsonFail
        ELSE IF StartsWithAt(s, <<"n", "u", "l", "l">>, i)
             THEN [ok |-> TRUE, val |-> PyNone, pos |-> i + 4]
        ELSE IF StartsWithAt(s, <<"t", "r", "u", "e">>, i)
             THEN [ok |-> TRUE, val |-> PyBool(TRUE), pos |-> i + 4]
        ELSE IF StartsWithAt(s, <<"f", "a", "l", "s", "e">>, i)
             THEN [ok |-> TRUE, val |-> PyBool(FALSE), pos |-> i + 5]
        ELSE IF s[i] = "\"" THEN ScanStr(s, i + 1, <<>>)
        ELSE IF s[i] = "-" \/ IsDigit(s[i]) THEN ScanInt(s, i)
        ELSE IF s[i] = "["
             THEN LET j == SkipWs(s, i + 1)
                  IN  IF j <= Len(s) /\ s[j] = "]"
                      THEN [ok |-> TRUE, val |-> PyList(<<>>), pos |-> j + 1]
                      ELSE ParseElems(s, j, <<>>)
        ELSE IF s[i] = "{"
             THEN LET j == SkipWs(s, i + 1)
                  IN  IF j <= Len(s) /\ s[j] = "}"
                      THEN [ok |-> TRUE, val |-> PyDict(<<>>), pos |-> j + 1]
                      ELSE ParseItems(s, j, <<>>)
        ELSE JsonFail

\* value (',' value)* ']' from index i, acc the elements read so far.
ParseElems(s, i, acc) ==
    LET r == ParseValue(s, i)
        j == SkipWs(s, r.pos)
    IN  IF ~r.ok \/ j > Len(s) THEN JsonFail
        ELSE IF s[j] = "]"
             THEN [ok |-> TRUE, val |-> PyList(Append(acc, r.val)), pos |-> j + 1]
        ELSE IF s[j] = "," THEN ParseElems(s, j + 1, Append(acc, r.val))
        ELSE JsonFail

\* string ':' value (',' string ':' value)* '}' from index i.
ParseItems(s, i0, acc) ==
    LET i == SkipWs(s, i0)
    IN  IF i > Len(s) \/ s[i] # "\"" THEN JsonFail
        ELSE LET key == ScanStr(s, i + 1, <<>>)
                 c   == IF key.ok THEN SkipWs(s, key.pos) ELSE 0
             IN  IF ~key.ok \/ c > Len(s) \/ s[c] # ":" THEN JsonFail
                 ELSE LET r == ParseValue(s, c + 1)
                          j == IF r.ok THEN SkipWs(s, r.pos) ELSE 0
                          items == DictSet(acc, key.val.v, r.val)
                      IN  IF ~r.ok \/ j > Len(s) THEN JsonFail
                          ELSE IF s[j] = "}"
                               THEN [ok |-> TRUE, val |-> PyDict(items), pos |-> j + 1]
                          ELSE IF s[j] = "," THEN ParseItems(s, j + 1, items)
                          ELSE JsonFail

\* json.loads(s): one value, then only whitespace.
JsonLoads(s) ==
    LET r == ParseValue(s, 1)
    IN  IF r.ok /\ SkipWs(s, r.pos) > Len(s)
        THEN [ok |-> TRUE, val |-> r.val]
        ELSE [ok |-> FALSE, val |-> PyNone]

(***************************************************************************)
(* Framing: LspClient._send_message and LspClient._receive_response.       *)
(***************************************************************************)
CRLF == <<"\r", "\n">>
CRLFCRLF == CRLF \o CRLF
ContentLengthKey == <<"C","o","n","t","e","n","t","-","L","e","n","g","t","h",":">>

\* Faulty variant: the header declares one byte less than the body has.
HeaderFor_OneShort(n) ==
    ContentLengthKey \o <<" ">> \o IntToChars(n - 1) \o CRLFCRLF

\* f"Content-Length: {n}\r\n\r\n"
HeaderFor(n) == ContentLengthKey \o <<" ">> \o IntToChars(n) \o CRLFCRLF

\* The bytes one _send_message(message) call hands to sendall.
FrameBytes(message) ==
    LET content == JsonDumps(message)
    IN  Utf8Encode(HeaderFor(Len(content)) \o content)

\* How a call ends: it returns, or raises exc(msg).
Returned == [exc |-> "none", msg |-> ""]
NotConnected == [exc |-> "ConnectionError", msg |-> "Not connected"]
ConnectionClosed == [exc |-> "ConnectionError", msg |-> "Connection closed"]
RecvTimeout == [exc |-> "socket.timeout", msg |-> "timed out"]
SendFailed == [exc |-> "OSError", msg |-> "send failed"]
BadContentLength == [exc |-> "ValueError", msg |-> "invalid literal for int()"]
BadUtf8 == [exc |-> "UnicodeDecodeError", msg |-> "invalid utf-8"]
BadJson == [exc |-> "JSONDecodeError", msg |-> "Expecting value"]

\* recv() on a stream with nothing left to read: b"" when the peer has closed,
\* which the caller turns into ConnectionError("Connection closed"); otherwise
\* the call blocks until the socket's 30 s timeout raises socket.timeout.
Starved(eof) == IF eof THEN ConnectionClosed ELSE RecvTimeout

\* The header loop: bytes are taken one at a time until the buffer holds
\* CRLFCRLF.  The number of bytes taken, 0 when the stream runs dry first.
HeaderEnd(avail) ==
    LET i == Find(avail, CRLFCRLF, 1)
    IN  IF i = 0 THEN 0 ELSE i + 3

\* Faulty variant: the declared length is never taken.
ContentLength_AlwaysZero(header_str) == [ok |-> TRUE, val |-> 0]

\* Faulty variant: the body loop leaves on an empty recv instead of raising.
ReadBody_BreaksOnEof(after, content_length) ==
    IF content_length <= 0
    THEN [done |-> TRUE, body |-> <<>>, rest |-> after]
    ELSE [done |-> TRUE,
          body |-> SubSeq(after, 1, IF Len(after) < content_length
                                    THEN Len(after) ELSE content_length),
          rest |-> SubSeq(after, content_length + 1, Len(after))]

\* Faulty variant: whatever arrived behind the body is discarded with it.
ReadBody_DropsRest(after, content_length) ==
    IF content_length <= 0
    THEN [done |-> TRUE, body |-> <<>>, rest |-> <<>>]
    ELSE IF Len(after) >= content_length
         THEN [done |-> TRUE, body |-> SubSeq(after, 1, content_length),
               rest |-> <<>>]
         ELSE [done |-> FALSE, body |-> after, rest |-> <<>>]

\* Faulty variant: only the first header line is looked at.
ContentLengthOf_FirstLineOnly(lines) ==
    IF lines # <<>> /\ StartsWith(lines[1], ContentLengthKey)
    THEN PyInt(Strip(Split(lines[1], <<":">>)[2]))
    ELSE [ok |-> TRUE, val |-> 0]

\* Faulty variant: the key is matched in lower case as well.
ContentLength_IgnoresCase(header_str) ==
    LET match(line) ==
            \/ StartsWith(line, ContentLengthKey)
            \/ StartsWith(line, <<"c","o","n","t","e","n","t","-","l","e","n","g","t","h",":">>)
        hits == SelectSeq(Split(header_str, CRLF), match)
    IN  IF hits = <<>> THEN [ok |-> TRUE, val |-> 0]
        ELSE PyInt(Strip(Split(hits[1], <<":">>)[2]))

\* The Content-Length loop over header_str.split('\r\n'): the first line that
\* starts with 'Content-Length:' decides, int(line.split(':')[1].strip());
\* content_length stays 0 when no line matches.
RECURSIVE ContentLengthOf(_)
ContentLengthOf(lines) ==
    IF lines = <<>> THEN [ok |-> TRUE, val |-> 0]
    ELSE IF StartsWith(lines[1], ContentLengthKey)
         THEN PyInt(Strip(Split(lines[1], <<":">>)[2]))
         ELSE ContentLengthOf(Tail(lines))

ContentLength(header_str) == ContentLengthOf(Split(header_str, CRLF))

\* The body loop: recv(content_length - len(body)) until len(body) reaches
\* content_length; no recv at all when content_length <= 0.
\* [done, body, rest]: done = FALSE when the stream ran dry first.
ReadBody(after, content_length) ==
    IF content_length <= 0
    THEN [done |-> TRUE, body |-> <<>>, rest |-> after]
    ELSE IF Len(after) >= content_length
         THEN [done |-> TRUE, body |-> SubSeq(after, 1, content_length),
               rest |-> SubSeq(after, content_length + 1, Len(after))]
         ELSE [done |-> FALSE, body |-> after, rest |-> <<>>]

\* Faulty variant: only what is under "result" is returned.
DecodeBody_ResultOnly(body) ==
    LET text == Utf8Decode(body)
        v    == JsonLoads(text.val)
    IN  IF ~text.ok THEN [res |-> BadUtf8, value |-> PyNone]
        ELSE IF ~v.ok THEN [res |-> BadJson, value |-> PyNone]
        ELSE [res |-> Returned,
              value |-> IF v.val.t = "dict"
                        THEN DictGet(v.val, <<"r","e","s","u","l","t">>)
                        ELSE v.val]

\* json.loads(body.decode('utf-8'))
DecodeBody(body) ==
    LET text == Utf8Decode(body)
        v    == JsonLoads(text.val)
    IN  IF ~text.ok THEN [res |-> BadUtf8, value |-> PyNone]
        ELSE IF ~v.ok THEN [res |-> BadJson, value |-> PyNone]
        ELSE [res |-> Returned, value |-> v.val]

\* _receive_response on a stream holding the unread bytes avail, eof telling
\* whether the peer has closed behind them.  [res, value, rest]: how the call
\* ends, what it returns, and the bytes it leaves unread.
ReceiveResponse(avail, eof) ==
    LET n == HeaderEnd(avail)
    IN  IF n = 0 THEN [res |-> Starved(eof), value |-> PyNone, rest |-> <<>>]
        ELSE
        LET after      == SubSeq(avail, n + 1, Len(avail))
            header_str == Utf8Decode(SubSeq(avail, 1, n))
            cl         == IF header_str.ok THEN ContentLength(header_str.val)
                          ELSE [ok |-> FALSE, val |-> 0]
            rb         == ReadBody(after, cl.val)
            dec        == DecodeBody(rb.body)
        IN  IF ~header_str.ok THEN [res |-> BadUtf8, value |-> PyNone, rest |-> after]
            ELSE IF ~cl.ok THEN [res |-> BadContentLength, value |-> PyNone, rest |-> after]
            ELSE IF ~rb.done THEN [res |-> Starved(eof), value |-> PyNone, rest |-> <<>>]
            ELSE [res |-> dec.res, value |-> dec.value, rest |-> rb.rest]

(***************************************************************************)
(* The client object and the sockets it has created.                       *)
(***************************************************************************)
VARIABLES
    sock,           \* self.sock: 0 for None, else the index in net of its socket
    request_id,     \* self.request_id
    net,            \* every socket object created so far, in creation order
    last,           \* the latest API call: [op, res, value, printed, sent, input]
    ncalls,         \* API calls made so far
    issued,         \* history: the ids send_request took since the latest connect()
    id_at_connect,  \* history: request_id when the latest connect() was called
    wire,           \* one message on its way through _send_message and
                    \* _receive_response, recv by recv
    validation,     \* one call of validate_schema
    threads,        \* two callers inside send_request at once, statement by
                    \* statement, and the server that answers them
    run             \* the compliance run: where it is and its results list

vars == <<sock, request_id, net, last, ncalls, issued, id_at_connect,
          wire, validation, threads, run>>

NoSock == 0

\* A socket: st is "unconnected" (created, connect() failed), "connected" or
\* "closed"; inbound holds the bytes received and not yet read; eof tells that
\* the peer has closed its end; broken that a send has failed on it; out is
\* the list of the messages written, each with the bytes sendall was given.
NewSock(connected) ==
    [st |-> IF connected THEN "connected" ELSE "unconnected",
     inbound |-> <<>>, eof |-> FALSE, broken |-> FALSE, out |-> <<>>]

ClosedSock ==
    [st |-> "closed", inbound |-> <<>>, eof |-> FALSE, broken |-> FALSE, out |-> <<>>]

\* A socket object the client no longer names: nothing reads or writes its
\* buffers any more, so only whether it is still open is kept.
Orphan(s) == [NewSock(s.st = "connected") EXCEPT !.st = s.st]

\* What recv had to read from during a call: the unread bytes and whether the
\* peer had closed behind them.  NoInput for a call that never reads.
NoInput == [avail |-> <<>>, eof |-> FALSE]

\* The record of an API call: op the method, res how it ended, value what it
\* returned, printed the line it printed, sent whether its sendall went
\* through, input what its _receive_response had to read from.
Call(op, res, value, printed) ==
    [op |-> op, res |-> res, value |-> value, printed |-> printed,
     sent |-> FALSE, input |-> NoInput]

\* No message is on its way.
WireIdle ==
    [pc |-> "idle", message |-> PyNone, sent |-> <<>>, echo |-> FALSE,
     bytes |-> <<>>, ends |-> {}, eof |-> FALSE, pos |-> 0,
     header_len |-> 0, content_length |-> 0, body |-> <<>>,
     res |-> Returned, value |-> PyNone, single |-> [res |-> Returned, value |-> PyNone]]

\* validate_schema has not been called.
NotValidated ==
    [pc |-> "idle", name |-> <<>>, result |-> PyNone, schema |-> PyNone,
     raised |-> "", ok |-> FALSE, issues |-> <<>>]

\* No caller has entered send_request.  Of a caller: pc where it is, loaded
\* the counter value its `+= 1` read, id and message what it built, header and
\* body what its recv calls returned, res and value how its call ended.
NoCaller ==
    [pc |-> "start", loaded |-> 0, id |-> 0, message |-> PyNone,
     header |-> <<>>, content_length |-> 0, body |-> <<>>,
     res |-> Returned, value |-> PyNone]

\* guarded: whether the callers hold one mutex around send_request; lock its
\* holder; served the requests the server has answered; running the caller
\* that ran last and switches how often that changed.
NoThreads ==
    [pc |-> "idle", guarded |-> FALSE, lock |-> 0, served |-> 0,
     running |-> 0, switches |-> 0, c |-> <<NoCaller, NoCaller>>]

\* compliance.run has not started: results = [].  pc is where the run is, i
\* the test the loop is at, connected what connect() returned, exit how the
\* try block was left.
NoRun ==
    [pc |-> "start", i |-> 1, connected |-> FALSE, results |-> <<>>,
     passed_count |-> 0, total |-> 0, exit |-> ""]

\* LspClient.__init__
Init ==
    /\ sock = NoSock
    /\ request_id = 0
    /\ net = <<>>
    /\ last = Call("init", Returned, PyNone, "")
    /\ ncalls = 0
    /\ issued = <<>>
    /\ id_at_connect = 0
    /\ wire = WireIdle
    /\ validation = NotValidated
    /\ threads = NoThreads
    /\ run = NoRun

\* One more API call.
Called == ncalls' = ncalls + 1

\* Faulty variant (for this code): connect() that resets the id counter.
Connect_ResetsCounter(ok) ==
    /\ Called
    /\ net' = Append(IF sock = NoSock THEN net
                       ELSE [net EXCEPT ![sock] = Orphan(@)],
                     NewSock(ok))
    /\ sock' = Len(net) + 1
    /\ request_id' = IF ok THEN 0 ELSE request_id
    /\ last' = Call("connect", Returned, PyBool(ok),
                    IF ok THEN "[OK] Connected" ELSE "[ERROR] Failed to connect")
    /\ issued' = <<>>
    /\ id_at_connect' = request_id

\* LspClient.connect: a new socket object replaces self.sock before the
\* connection attempt, and stays there when the attempt fails; the socket
\* self.sock named before is not closed.  ok: whether the attempt succeeds.
Connect(ok) ==
    /\ Called
    /\ net' = Append(IF sock = NoSock THEN net
                       ELSE [net EXCEPT ![sock] = Orphan(@)],
                     NewSock(ok))
    /\ sock' = Len(net) + 1
    /\ request_id' = request_id
    /\ last' = Call("connect", Returned, PyBool(ok),
                    IF ok THEN "[OK] Connected" ELSE "[ERROR] Failed to connect")
    /\ issued' = <<>>
    /\ id_at_connect' = request_id

\* Faulty variant: `self.sock = None` inside the try, after close().
Disconnect_KeepsSockOnCloseError(close_fails) ==
    /\ Called
    /\ IF sock # NoSock
       THEN /\ net' = [net EXCEPT ![sock] = ClosedSock]
            /\ sock' = IF close_fails THEN sock ELSE NoSock
            /\ last' = Call("disconnect", Returned, PyNone,
                            IF close_fails THEN "" ELSE "Disconnected")
       ELSE /\ ~close_fails
            /\ UNCHANGED <<net, sock>>
            /\ last' = Call("disconnect", Returned, PyNone, "")
    /\ UNCHANGED <<request_id, issued, id_at_connect>>

\* Faulty variant: disconnect() starts the ids over.
Disconnect_ResetsCounter(close_fails) ==
    /\ Called
    /\ IF sock # NoSock
       THEN /\ net' = [net EXCEPT ![sock] = ClosedSock]
            /\ sock' = NoSock
            /\ last' = Call("disconnect", Returned, PyNone,
                            IF close_fails THEN "" ELSE "Disconnected")
       ELSE /\ ~close_fails
            /\ UNCHANGED <<net, sock>>
            /\ last' = Call("disconnect", Returned, PyNone, "")
    /\ request_id' = 0
    /\ UNCHANGED <<issued, id_at_connect>>

\* LspClient.disconnect.  close_fails: whether sock.close() raises; the bare
\* except swallows it, after the descriptor is released all the same.
Disconnect(close_fails) ==
    /\ Called
    /\ IF sock # NoSock
       THEN /\ net' = [net EXCEPT ![sock] = ClosedSock]
            /\ sock' = NoSock
            /\ last' = Call("disconnect", Returned, PyNone,
                            IF close_fails THEN "" ELSE "Disconnected")
       ELSE /\ ~close_fails
            /\ UNCHANGED <<net, sock>>
            /\ last' = Call("disconnect", Returned, PyNone, "")
    /\ UNCHANGED <<request_id, issued, id_at_connect>>

\* A socket object that self.sock no longer names is finalized at some later
\* point, which closes it.
Finalize(h) ==
    /\ h # sock
    /\ net[h].st # "closed"
    /\ net' = [net EXCEPT ![h] = ClosedSock]
    /\ UNCHANGED <<sock, request_id, last, ncalls, issued, id_at_connect>>

\* Faulty variant: the id is taken before the connection check.
RaiseNotConnected_AfterIncrement(op) ==
    /\ last' = Call(op, NotConnected, PyNone, "")
    /\ request_id' = request_id + 1
    /\ UNCHANGED <<sock, net, issued, id_at_connect>>

\* `if not self.sock: raise ConnectionError("Not connected")`
RaiseNotConnected(op) ==
    /\ last' = Call(op, NotConnected, PyNone, "")
    /\ UNCHANGED <<sock, request_id, net, issued, id_at_connect>>

\* Faulty variants of the increment: one that skips an id, one that repeats it.
NextId_SkipsOne(rid) == rid + 2
NextId_Stuck(rid) == rid

\* Faulty variant: the counter stops at 1.
NextId_StopsAtOne(rid) == IF rid >= 1 THEN 1 ELSE rid + 1

\* self.request_id += 1
NextId(rid) == rid + 1

JsonRpc == [k |-> <<"j","s","o","n","r","p","c">>, v |-> PyStr(<<"2",".","0">>)]
KeyId == <<"i","d">>
KeyMethod == <<"m","e","t","h","o","d">>
KeyParams == <<"p","a","r","a","m","s">>

\* `params or {}`
ParamsOrEmpty(params) == IF Truthy(params) THEN params ELSE PyDict(<<>>)

\* Faulty variant: the dict carries the id before the increment.
Request_StaleId(id, method, params) ==
    PyDict(<<JsonRpc,
             [k |-> KeyId, v |-> PyIntV(id - 1)],
             [k |-> KeyMethod, v |-> PyStr(method)],
             [k |-> KeyParams, v |-> ParamsOrEmpty(params)]>>)

\* The request dict of send_request.
Request(id, method, params) ==
    PyDict(<<JsonRpc,
             [k |-> KeyId, v |-> PyIntV(id)],
             [k |-> KeyMethod, v |-> PyStr(method)],
             [k |-> KeyParams, v |-> ParamsOrEmpty(params)]>>)

\* Faulty variant: a notification that carries the current id.
Notification_WithId(method, params) ==
    PyDict(<<JsonRpc,
             [k |-> KeyId, v |-> PyIntV(request_id)],
             [k |-> KeyMethod, v |-> PyStr(method)],
             [k |-> KeyParams, v |-> ParamsOrEmpty(params)]>>)

\* The notification dict of send_notification.
Notification(method, params) ==
    PyDict(<<JsonRpc,
             [k |-> KeyMethod, v |-> PyStr(method)],
             [k |-> KeyParams, v |-> ParamsOrEmpty(params)]>>)

\* sock.sendall(bytes) can succeed (TRUE) or raise OSError (FALSE): it raises on
\* a socket that never connected and on one a send already failed on, and may
\* do either once the peer has closed.
SendOutcomes(s) ==
    IF s.st # "connected" \/ s.broken THEN {FALSE}
    ELSE IF s.eof THEN {TRUE, FALSE}
    ELSE {TRUE}

\* Faulty variant: the frame is written a second time.
SendMessage_Twice(s, message, sent) ==
    IF sent
    THEN [s EXCEPT !.out = @ \o << [msg |-> message, bytes |-> FrameBytes(message)],
                                   [msg |-> message, bytes |-> FrameBytes(message)] >>]
    ELSE [s EXCEPT !.broken = (s.st = "connected")]

\* The socket after _send_message(message): what was written is kept as the
\* message and the bytes sendall was given.
SendMessage(s, message, sent) ==
    IF sent
    THEN [s EXCEPT !.out = Append(@, [msg |-> message, bytes |-> FrameBytes(message)])]
    ELSE [s EXCEPT !.broken = (s.st = "connected")]

\* LspClient.send_request
SendRequest(method, params) ==
    /\ Called
    /\ IF sock = NoSock
       THEN RaiseNotConnected("send_request")
       ELSE LET rid     == NextId(request_id)
                request == Request(rid, method, params)
            IN  /\ request_id' = rid
                /\ issued' = Append(issued, rid)
                /\ UNCHANGED <<sock, id_at_connect>>
                /\ \E sent \in SendOutcomes(net[sock]) :
                     IF ~sent
                     THEN /\ net' = [net EXCEPT ![sock] = SendMessage(@, request, FALSE)]
                          /\ last' = Call("send_request", SendFailed, PyNone, "")
                     ELSE LET r == ReceiveResponse(net[sock].inbound, net[sock].eof)
                          IN  /\ net' = [net EXCEPT ![sock] =
                                            [SendMessage(@, request, TRUE)
                                               EXCEPT !.inbound = r.rest]]
                              /\ last' = [Call("send_request", r.res, r.value, "")
                                            EXCEPT !.sent = TRUE,
                                                   !.input = [avail |-> net[sock].inbound,
                                                              eof |-> net[sock].eof]]

\* LspClient.send_notification
SendNotification(method, params) ==
    /\ Called
    /\ IF sock = NoSock
       THEN RaiseNotConnected("send_notification")
       ELSE LET notification == Notification(method, params)
            IN  /\ UNCHANGED <<sock, request_id, issued, id_at_connect>>
                /\ \E sent \in SendOutcomes(net[sock]) :
                     /\ net' = [net EXCEPT ![sock] = SendMessage(@, notification, sent)]
                     /\ last' = [Call("send_notification",
                                      IF sent THEN Returned ELSE SendFailed, PyNone, "")
                                   EXCEPT !.sent = sent]

(***************************************************************************)
(* The server at the other end of self.sock.                               *)
(***************************************************************************)
\* The peer's bytes arrive on the connection.
PeerSend(bytes) ==
    /\ sock # NoSock
    /\ net[sock].st = "connected"
    /\ ~net[sock].eof
    /\ net[sock].inbound = <<>>
    /\ bytes # <<>>
    /\ net' = [net EXCEPT ![sock].inbound = bytes]
    /\ UNCHANGED <<sock, request_id, last, ncalls, issued, id_at_connect>>

\* The peer closes its end of the connection.
PeerClose ==
    /\ sock # NoSock
    /\ net[sock].st = "connected"
    /\ ~net[sock].eof
    /\ net' = [net EXCEPT ![sock].eof = TRUE]
    /\ UNCHANGED <<sock, request_id, last, ncalls, issued, id_at_connect>>

(***************************************************************************)
(* What the callers and the peer of the model send.                        *)
(***************************************************************************)
MethodInitialize == <<"i","n","i","t","i","a","l","i","z","e">>
MethodHover == <<"t","e","x","t","D","o","c","u","m","e","n","t","/","h","o","v","e","r">>

ApiCalls ==
    { [method |-> MethodInitialize, params |-> PyNone],
      [method |-> MethodHover,
       params |-> PyDict(<<[k |-> <<"u","r","i">>, v |-> PyStr(<<"f">>)]>>)] }

KeyResult == <<"r","e","s","u","l","t">>
KeyError == <<"e","r","r","o","r">>
KeyCode == <<"c","o","d","e">>

ResultNull == PyDict(<<[k |-> KeyResult, v |-> PyNone]>>)
ErrorEnvelope ==
    PyDict(<<[k |-> KeyError,
              v |-> PyDict(<<[k |-> KeyCode, v |-> PyIntV(-32601)]>>)]>>)

\* A header block: the lines, each ended by CRLF, then the empty line.
RECURSIVE HeaderBlock(_)
HeaderBlock(lines) ==
    IF lines = <<>> THEN CRLF ELSE lines[1] \o CRLF \o HeaderBlock(Tail(lines))

ContentTypeLine == <<"C","o","n","t","e","n","t","-","T","y","p","e",":"," ","x">>
ContentLengthLine(n) == ContentLengthKey \o <<" ">> \o IntToChars(n)
LowerCaseLengthLine(n) ==
    <<"c","o","n","t","e","n","t","-","l","e","n","g","t","h",":"," ">> \o IntToChars(n)

\* A frame as a server writes it: Content-Length is the body's byte count.
ServerFrame(extra, envelope) ==
    LET body == Utf8Encode(JsonDumps(envelope))
    IN  HeaderBlock(extra \o <<ContentLengthLine(Len(body))>>) \o body

WellFormedFrames ==
    { ServerFrame(<<>>, ResultNull),
      ServerFrame(<<>>, ErrorEnvelope),
      ServerFrame(<<ContentTypeLine>>, ResultNull) }

Prefixes(f) == {SubSeq(f, 1, n) : n \in 0..Len(f)}
StrictPrefixes(f) == {SubSeq(f, 1, n) : n \in 0..(Len(f) - 1)}

\* Header blocks that declare a Content-Length of at least 1.
PositiveBareHeaders ==
    { HeaderBlock(<<ContentLengthLine(n)>>) : n \in {1, 16, 120} }
    \cup { HeaderBlock(<<ContentTypeLine, ContentLengthLine(16)>>),
           HeaderBlock(<<ContentLengthLine(16), ContentTypeLine>>) }

\* Header blocks with nothing behind them: the above, and blocks that declare
\* length 0, no length, a length under a lower-case key, or no integer.
BareHeaders ==
    PositiveBareHeaders
    \cup { HeaderBlock(<<ContentLengthLine(0)>>),
           HeaderBlock(<<>>),
           HeaderBlock(<<ContentTypeLine>>),
           HeaderBlock(<<LowerCaseLengthLine(16)>>),
           HeaderBlock(<<ContentLengthKey \o <<" ", "x">> >>) }

\* A response as a server writes it: the envelope with the id it answers.
Reply(id, envelope) ==
    PyDict(<<JsonRpc, [k |-> KeyId, v |-> PyIntV(id)]>> \o envelope.v)

\* Two responses written back to back, whose ids are not those of the requests
\* that will read them: each with its envelope and its bytes.
BackToBack ==
    << [envelope |-> Reply(2, ResultNull),
        bytes |-> ServerFrame(<<>>, Reply(2, ResultNull))],
       [envelope |-> Reply(1, ErrorEnvelope),
        bytes |-> ServerFrame(<<ContentTypeLine>>, Reply(1, ErrorEnvelope))] >>

\* What the peer sends in one piece in the runs of Spec.
Deliveries ==
    { ServerFrame(<<>>, ResultNull),
      ServerFrame(<<ContentTypeLine>>, ErrorEnvelope),
      HeaderBlock(<<ContentLengthLine(16)>>),
      HeaderBlock(<<ContentTypeLine>>),
      SubSeq(ServerFrame(<<>>, ResultNull), 1, 30),
      BackToBack[1].bytes \o BackToBack[2].bytes }

\* What the peer sends in one piece in the runs of SpecFrames: every prefix of
\* every well-formed frame, and the bare header blocks.
FrameDeliveries == UNION {Prefixes(f) : f \in WellFormedFrames} \cup BareHeaders

\* The step leaves the message on the wire and the validation alone.
Idle == UNCHANGED <<wire, validation, threads, run>>

Next ==
    \/ ncalls < MaxCalls /\ (\E ok \in BOOLEAN : Connect(ok)) /\ Idle
    \/ ncalls < MaxCalls /\ (\E close_fails \in BOOLEAN : Disconnect(close_fails)) /\ Idle
    \/ (\E h \in 1..Len(net) : Finalize(h)) /\ Idle
    \/ ncalls < MaxCalls /\ (\E c \in ApiCalls : SendRequest(c.method, c.params)) /\ Idle
    \/ ncalls < MaxCalls /\ (\E c \in ApiCalls : SendNotification(c.method, c.params)) /\ Idle
    \/ ncalls < MaxCalls /\ (\E bytes \in Deliveries : PeerSend(bytes)) /\ Idle
    \/ ncalls < MaxCalls /\ PeerClose /\ Idle

Spec == Init /\ [][Next]_vars

\* The runs that exercise the decoder: one kind of request, every way the peer
\* can cut a frame short.
NextFrames ==
    \/ ncalls < MaxFrameCalls /\ (\E ok \in BOOLEAN : Connect(ok)) /\ Idle
    \/ ncalls < MaxFrameCalls /\ (SendRequest(MethodInitialize, PyNone)) /\ Idle
    \/ ncalls < MaxFrameCalls /\ (\E bytes \in FrameDeliveries : PeerSend(bytes)) /\ Idle
    \/ ncalls < MaxFrameCalls /\ PeerClose /\ Idle

SpecFrames == Init /\ [][NextFrames]_vars

\* The runs that exercise the header loop: frames with other header lines
\* around the Content-Length line, and header blocks without that line.
HintLine == <<"C","o","n","t","e","n","t","-","L","e","n","g","t","h","-","H","i","n","t",":"," ","7">>

ExtraLines ==
    { <<>>, <<ContentTypeLine>>, <<LowerCaseLengthLine(3)>>, <<HintLine>>,
      <<ContentTypeLine, HintLine>> }

\* The frame of an envelope with header lines before and after Content-Length.
FrameWith(before, after, envelope) ==
    LET body == Utf8Encode(JsonDumps(envelope))
    IN  HeaderBlock(before \o <<ContentLengthLine(Len(body))>> \o after) \o body

\* What may follow a frame on the stream.
Followers == { <<>>, ServerFrame(<<>>, ResultNull) }

\* Each frame with extra lines, followed or not, with its envelope and what
\* the decoder does with the same stream when the extra lines are left out.
HeaderCases ==
    { [bytes |-> FrameWith(b, a, e) \o t, envelope |-> e,
       plain |-> ReceiveResponse(ServerFrame(<<>>, e) \o t, FALSE)] :
        b \in ExtraLines, a \in ExtraLines, e \in {ResultNull, ErrorEnvelope},
        t \in Followers }

\* Header blocks without a Content-Length line, each with what follows it.
NoLengthCases ==
    { [bytes |-> h \o t, rest |-> t] :
        h \in { CRLFCRLF, HeaderBlock(<<ContentTypeLine>>),
                HeaderBlock(<<LowerCaseLengthLine(16)>>),
                HeaderBlock(<<ContentTypeLine, HintLine>>) },
        t \in { <<>>, <<"{","}">>, Utf8Encode(JsonDumps(ResultNull)) } }

HeaderDeliveries == {c.bytes : c \in HeaderCases} \cup {c.bytes : c \in NoLengthCases}

NextHeaders ==
    \/ ncalls < MaxFrameCalls /\ (\E ok \in BOOLEAN : Connect(ok)) /\ Idle
    \/ ncalls < MaxFrameCalls /\ (SendRequest(MethodInitialize, PyNone)) /\ Idle
    \/ ncalls < MaxFrameCalls /\ (\E bytes \in HeaderDeliveries : PeerSend(bytes)) /\ Idle
    \/ ncalls < MaxFrameCalls /\ PeerClose /\ Idle

SpecHeaders == Init /\ [][NextHeaders]_vars

(***************************************************************************)
(* One message through _send_message and _receive_response, recv by recv.  *)
(* The stream the client reads is wire.bytes, delivered in pieces that end *)
(* at the offsets wire.ends; wire.pos bytes of it have been read.          *)
(***************************************************************************)
MaxChunk == 3

Client == <<sock, request_id, net, last, ncalls, issued, id_at_connect>>

\* The offsets at which the pieces of an n-byte stream end: pieces of `size`
\* bytes each, or two pieces, the first of k bytes.
EndsEvery(n, size) == {e \in 1..n : e % size = 0 \/ e = n}
EndsAt(n, k) == {k, n}

Arrivals(n) ==
    {EndsEvery(n, size) : size \in 1..MaxChunk} \cup {EndsAt(n, k) : k \in 1..n}

\* sock.recv(bufsize): at most bufsize bytes, and no more than the piece at
\* the head of the stream holds; <<>> when nothing is left to read.
Recv(w, bufsize) ==
    IF w.pos >= Len(w.bytes) THEN <<>>
    ELSE LET piece_end == Min({e \in w.ends : e > w.pos})
             n == IF piece_end - w.pos < bufsize THEN piece_end - w.pos ELSE bufsize
         IN  SubSeq(w.bytes, w.pos + 1, w.pos + n)

\* Faulty variant: the body loop stops after the first recv that brings bytes.
BodyDone_AfterOneRecv(body, content_length) ==
    content_length <= 0 \/ body # <<>>

\* The exit of `while len(body) < content_length`.
BodyDone(body, content_length) == Len(body) >= content_length

\* _send_message(message): the bytes handed to sendall.
WireSend(message) ==
    /\ wire.pc = "idle"
    /\ wire' = [wire EXCEPT !.pc = "sent", !.message = message,
                            !.sent = FrameBytes(message)]
    /\ UNCHANGED <<Client, validation, threads, run>>

\* The stream _receive_response will read: bytes, in the pieces that end at
\* ends, the peer closing behind them if eof.  echo: the bytes are those the
\* client wrote.  single: how the call ends when every recv finds all of it.
Arrive(bytes, echo, ends, eof) ==
    /\ wire.pc = "sent"
    /\ wire' = [wire EXCEPT !.pc = "header", !.bytes = bytes, !.echo = echo,
                            !.ends = ends, !.eof = eof,
                            !.single = LET r == ReceiveResponse(bytes, eof)
                                       IN  [res |-> r.res, value |-> r.value]]
    /\ UNCHANGED <<Client, validation, threads, run>>

\* The header loop, recv(1) until the buffer holds CRLFCRLF, then the
\* Content-Length parse.
RecvHeader ==
    /\ wire.pc = "header"
    /\ LET n          == HeaderEnd(wire.bytes)
           header_str == Utf8Decode(SubSeq(wire.bytes, 1, n))
           cl         == ContentLength(header_str.val)
       IN  wire' =
             IF n = 0
             THEN [wire EXCEPT !.pc = "raised", !.res = Starved(wire.eof),
                               !.pos = Len(wire.bytes)]
             ELSE IF ~header_str.ok
             THEN [wire EXCEPT !.pc = "raised", !.res = BadUtf8, !.pos = n]
             ELSE IF ~cl.ok
             THEN [wire EXCEPT !.pc = "raised", !.res = BadContentLength, !.pos = n]
             ELSE [wire EXCEPT !.pc = "body", !.pos = n, !.header_len = n,
                               !.content_length = cl.val]
    /\ UNCHANGED <<Client, validation, threads, run>>

\* One turn of the body loop: recv(content_length - len(body)).
RecvBody ==
    /\ wire.pc = "body"
    /\ ~BodyDone(wire.body, wire.content_length)
    /\ LET chunk == Recv(wire, wire.content_length - Len(wire.body))
       IN  wire' =
             IF chunk = <<>>
             THEN [wire EXCEPT !.pc = "raised", !.res = Starved(wire.eof)]
             ELSE [wire EXCEPT !.body = @ \o chunk, !.pos = @ + Len(chunk)]
    /\ UNCHANGED <<Client, validation, threads, run>>

\* json.loads(body.decode('utf-8')) once the body loop has ended.
Decode ==
    /\ wire.pc = "body"
    /\ BodyDone(wire.body, wire.content_length)
    /\ LET d == DecodeBody(wire.body)
       IN  wire' = [wire EXCEPT !.pc = IF d.res = Returned THEN "returned" ELSE "raised",
                                !.res = d.res, !.value = d.value]
    /\ UNCHANGED <<Client, validation, threads, run>>

\* The messages sent in the runs of SpecWire: requests and notifications with
\* ASCII and non-ASCII method names and params, escapes, nesting.
MethodCafe == <<"c","a","f","U+00E9">>

WireMessages ==
    { Request(1, MethodInitialize, PyNone),
      Request(2, MethodHover, PyDict(<<[k |-> <<"a">>, v |-> PyIntV(1)]>>)),
      Request(3, MethodCafe,
              PyDict(<<[k |-> <<"n","U+00E9">>,
                        v |-> PyStr(<<"U+00E9","\"","\\","U+00E9">>)]>>)),
      Request(12, MethodHover,
              PyDict(<<[k |-> <<"p">>,
                        v |-> PyDict(<<[k |-> <<"l">>, v |-> PyIntV(-1)]>>)],
                       [k |-> <<"f">>,
                        v |-> PyList(<<PyBool(TRUE), PyNone, PyStr(<<"x","\t","y">>)>>)]>>)),
      Notification(MethodInitialize, PyNone),
      Notification(MethodCafe, PyDict(<<[k |-> <<"u">>, v |-> PyStr(<<"U+00E9">>)]>>)) }

\* A frame whose body holds a two-byte character unescaped, as a server that
\* writes raw UTF-8 sends it.
RawUtf8Body ==
    Utf8Encode(<<"{","\"","r","e","s","u","l","t","\"",":"," ","\"","U+00E9","\"","}">>)

RawUtf8Frame == HeaderBlock(<<ContentLengthLine(Len(RawUtf8Body))>>) \o RawUtf8Body

\* What the peer answers in the runs of SpecWire: whole frames, two frames
\* back to back, a frame cut short.
WireFrames ==
    { ServerFrame(<<>>, ResultNull),
      BackToBack[2].bytes,
      RawUtf8Frame,
      BackToBack[1].bytes \o BackToBack[2].bytes,
      SubSeq(BackToBack[1].bytes, 1, Len(BackToBack[1].bytes) - 3) }

NextWire ==
    \/ \E message \in WireMessages : WireSend(message)
    \/ \E ends \in Arrivals(Len(wire.sent)) : Arrive(wire.sent, TRUE, ends, FALSE)
    \/ \E f \in WireFrames : \E ends \in Arrivals(Len(f)), eof \in BOOLEAN :
          Arrive(f, FALSE, ends, eof)
    \/ RecvHeader
    \/ RecvBody
    \/ Decode

SpecWire == Init /\ [][NextWire]_vars

(***************************************************************************)
(* validate_schema(name, result, schema) of utils.py.  An issue is the     *)
(* text of the string appended; the outcome of a call is [raised, ok,      *)
(* issues], raised naming the exception when the call does not return.     *)
(***************************************************************************)
KeyType == <<"t","y","p","e">>
KeyNullable == <<"n","u","l","l","a","b","l","e">>
KeyItemFields == <<"i","t","e","m","F","i","e","l","d","s">>
KeyRequiredFields == <<"r","e","q","u","i","r","e","d","F","i","e","l","d","s">>
TypeArray == PyStr(<<"a","r","r","a","y">>)
TypeObject == PyStr(<<"o","b","j","e","c","t">>)
\* Types a schema can name that the validator has no branch for.
TypeString == PyStr(<<"s","t","r","i","n","g">>)
TypeScalar == PyStr(<<"s","c","a","l","a","r">>)

\* d.get(key, default)
DictGetDefault(d, key, default) == IF HasKey(d, key) THEN DictGet(d, key) ELSE default

\* type(x).__name__
TypeName(x) ==
    CASE x.t = "null" -> <<"N","o","n","e","T","y","p","e">>
      [] x.t = "bool" -> <<"b","o","o","l">>
      [] x.t = "int"  -> <<"i","n","t">>
      [] x.t = "str"  -> <<"s","t","r">>
      [] x.t = "list" -> <<"l","i","s","t">>
      [] x.t = "dict" -> <<"d","i","c","t">>

\* repr() of a str: single quotes, unless the text holds one and no double
\* quote; the quote in use, the backslash and the control characters escaped.
ReprQuote(s) ==
    IF (\E i \in 1..Len(s) : s[i] = "'") /\ ~(\E i \in 1..Len(s) : s[i] = "\"")
    THEN "\"" ELSE "'"

RECURSIVE ReprChars(_, _)
ReprChars(s, q) ==
    IF s = <<>> THEN <<>>
    ELSE (CASE s[1] = q    -> <<"\\", q>>
            [] s[1] = "\\" -> <<"\\", "\\">>
            [] s[1] = "\n" -> <<"\\", "n">>
            [] s[1] = "\r" -> <<"\\", "r">>
            [] s[1] = "\t" -> <<"\\", "t">>
            [] OTHER       -> <<s[1]>>) \o ReprChars(Tail(s), q)

ReprStr(s) == <<ReprQuote(s)>> \o ReprChars(s, ReprQuote(s)) \o <<ReprQuote(s)>>

\* repr(x)
RECURSIVE PyRepr(_), ReprElems(_), ReprItems(_)
PyRepr(x) ==
    CASE x.t = "null" -> <<"N","o","n","e">>
      [] x.t = "bool" -> IF x.v THEN <<"T","r","u","e">> ELSE <<"F","a","l","s","e">>
      [] x.t = "int"  -> IntToChars(x.v)
      [] x.t = "str"  -> ReprStr(x.v)
      [] x.t = "list" -> <<"[">> \o ReprElems(x.v) \o <<"]">>
      [] x.t = "dict" -> <<"{">> \o ReprItems(x.v) \o <<"}">>

ReprElems(xs) ==
    IF xs = <<>> THEN <<>>
    ELSE PyRepr(xs[1])
         \o (IF Len(xs) > 1 THEN <<",", " ">> \o ReprElems(Tail(xs)) ELSE <<>>)

ReprItems(items) ==
    IF items = <<>> THEN <<>>
    ELSE ReprStr(items[1].k) \o <<":", " ">> \o PyRepr(items[1].v)
         \o (IF Len(items) > 1 THEN <<",", " ">> \o ReprItems(Tail(items)) ELSE <<>>)

\* str(x), what an f-string puts in place of {x}.
PyStrOf(x) == IF x.t = "str" THEN x.v ELSE PyRepr(x)

\* `field in container`: a key of a dict, an element of a list, a substring of
\* a str; ok = FALSE stands for the TypeError any other container raises, and
\* a str raises for a field that is no str.
PyIn(field, container) ==
    CASE container.t = "dict" ->
             [ok |-> TRUE, val |-> field.t = "str" /\ HasKey(container, field.v)]
      [] container.t = "list" ->
             [ok |-> TRUE, val |-> \E i \in 1..Len(container.v) : container.v[i] = field]
      [] container.t = "str" ->
             [ok |-> field.t = "str",
              val |-> field.t = "str" /\ Contains(container.v, field.v)]
      [] OTHER -> [ok |-> FALSE, val |-> FALSE]

\* The texts of the issues.
ErrorResponseText ==
    <<"E","r","r","o","r"," ","r","e","s","p","o","n","s","e",":"," ">>

NullNotAllowedText ==
    <<"R","e","t","u","r","n","e","d"," ","n","u","l","l"," ","b","u","t"," ",
      "s","c","h","e","m","a"," ","d","o","e","s"," ","n","o","t"," ","a","l",
      "l","o","w"," ","i","t">>

ExpectedArrayText ==
    <<"E","x","p","e","c","t","e","d"," ","a","r","r","a","y",","," ","g","o",
      "t"," ">>

ExpectedObjectText ==
    <<"E","x","p","e","c","t","e","d"," ","o","b","j","e","c","t",","," ","g",
      "o","t"," ">>

ArrayItemMissingText ==
    <<"A","r","r","a","y"," ","i","t","e","m"," ","m","i","s","s","i","n","g",
      " ","r","e","q","u","i","r","e","d"," ","f","i","e","l","d",":"," ">>

MissingRequiredText ==
    <<"M","i","s","s","i","n","g"," ","r","e","q","u","i","r","e","d"," ","f",
      "i","e","l","d",":"," ">>

\* Faulty variant: a single issue still passes.
Verdict_PassesWithOneIssue(issues) ==
    [raised |-> "", ok |-> Len(issues) <= 1, issues |-> issues]

\* How a call of validate_schema ends.
Verdict(issues) == [raised |-> "", ok |-> Len(issues) = 0, issues |-> issues]
Raises(exc) == [raised |-> exc, ok |-> FALSE, issues |-> <<>>]

\* Faulty variant: a schema without the flag allows null.
Nullable_DefaultTrue(schema) ==
    Truthy(DictGetDefault(schema, KeyNullable, PyBool(TRUE)))

\* schema.get("nullable", False)
Nullable(schema) == Truthy(DictGetDefault(schema, KeyNullable, PyBool(FALSE)))

\* Faulty variant: the last item is the one inspected.
Item_Last(response) == response.v[Len(response.v)]

\* item = response[0]
Item(response) == response.v[1]

\* schema.get("itemFields", [])
ItemFields(schema) == DictGetDefault(schema, KeyItemFields, PyList(<<>>))

\* Faulty variant: the object check reads the array's field list.
RequiredFields_FromItemFields(schema) ==
    DictGetDefault(schema, KeyItemFields, PyList(<<>>))

\* schema.get("requiredFields", [])
RequiredFields(schema) == DictGetDefault(schema, KeyRequiredFields, PyList(<<>>))

\* `for field in fields: if field not in container: issues.append(text + field)`
\* TypeError when `in` raises for a field.
CheckFields(fields, container, text) ==
    LET absent(field) == ~PyIn(field, container).val
        missing == SelectSeq(fields.v, absent)
    IN  IF \E i \in 1..Len(fields.v) : ~PyIn(fields.v[i], container).ok
        THEN Raises("TypeError")
        ELSE Verdict([i \in 1..Len(missing) |-> text \o PyStrOf(missing[i])])

ValidateSchema(result, schema) ==
    LET error         == DictGet(result, KeyError)
        response      == DictGet(result, KeyResult)
        expected_type == DictGet(schema, KeyType)
    IN  IF Truthy(error)
        THEN [raised |-> "", ok |-> FALSE,
              issues |-> <<ErrorResponseText \o PyStrOf(error)>>]
        ELSE IF response = PyNone
        THEN IF Nullable(schema)
             THEN [raised |-> "", ok |-> TRUE, issues |-> <<>>]
             ELSE [raised |-> "", ok |-> FALSE, issues |-> <<NullNotAllowedText>>]
        ELSE IF expected_type = TypeArray
        THEN IF response.t # "list"
             THEN Verdict(<<ExpectedArrayText \o TypeName(response)>>)
             ELSE IF Truthy(response) /\ Truthy(ItemFields(schema))
                  THEN CheckFields(ItemFields(schema), Item(response),
                                   ArrayItemMissingText)
                  ELSE Verdict(<<>>)
        ELSE IF expected_type = TypeObject
        THEN IF response.t # "dict"
             THEN Verdict(<<ExpectedObjectText \o TypeName(response)>>)
             ELSE CheckFields(RequiredFields(schema), response, MissingRequiredText)
        ELSE Verdict(<<>>)

\* What a call validate_schema(name, result, schema) leaves behind.
Checked(name, result, schema) ==
    [pc |-> "done", name |-> name, result |-> result, schema |-> schema]
    @@ ValidateSchema(result, schema)

\* One call validate_schema(name, result, schema).
Validate(name, result, schema) ==
    /\ validation.pc = "idle"
    /\ validation' = Checked(name, result, schema)
    /\ UNCHANGED <<Client, wire, threads, run>>

\* The envelopes and the schemas of the runs of SpecValidate.
FieldUri == <<"u","r","i">>
FieldRange == <<"r","a","n","g","e">>
FieldContents == <<"c","o","n","t","e","n","t","s">>

Location == PyDict(<<[k |-> FieldUri, v |-> PyStr(<<"f">>)],
                     [k |-> FieldRange, v |-> PyIntV(1)]>>)
OnlyUri == PyDict(<<[k |-> FieldUri, v |-> PyStr(<<"f">>)]>>)
OnlyRange == PyDict(<<[k |-> FieldRange, v |-> PyIntV(1)]>>)
Hover == PyDict(<<[k |-> FieldContents, v |-> PyStr(<<"x">>)]>>)
EmptyDict == PyDict(<<>>)
MethodNotFound == PyDict(<<[k |-> KeyCode, v |-> PyIntV(-32601)]>>)

ResultOf(response) == PyDict(<<[k |-> KeyResult, v |-> response]>>)
ErrorOf(error) == PyDict(<<[k |-> KeyError, v |-> error]>>)
ErrorAnd(error, response) ==
    PyDict(<<[k |-> KeyError, v |-> error], [k |-> KeyResult, v |-> response]>>)

\* The results that are arrays.
ArrayResponses ==
    { PyList(<<>>),
      PyList(<<Location>>), PyList(<<Location, EmptyDict>>), PyList(<<Location, PyIntV(5)>>),
      PyList(<<OnlyUri>>), PyList(<<OnlyUri, Location>>),
      PyList(<<OnlyRange>>), PyList(<<EmptyDict, Location>>),
      PyList(<<PyIntV(1)>>), PyList(<<PyIntV(1), Location>>), PyList(<<PyNone>>),
      PyList(<<PyStr(<<"a"," ","u","r","i">>)>>),
      PyList(<<PyList(<<PyStr(FieldUri)>>)>>) }

Envelopes ==
    { ErrorOf(MethodNotFound), ErrorAnd(MethodNotFound, PyList(<<Location>>)),
      ErrorOf(PyStr(<<"b","o","o","m">>)),
      ErrorOf(EmptyDict), ErrorAnd(PyNone, Hover), ErrorAnd(PyIntV(0), PyList(<<Location>>)),
      ResultOf(PyNone), EmptyDict,
      ResultOf(Hover), ResultOf(Location), ResultOf(OnlyRange), ResultOf(EmptyDict),
      ResultOf(PyIntV(0)), ResultOf(PyStr(<<"x">>)), ResultOf(PyBool(FALSE)) }
    \cup { ResultOf(response) : response \in ArrayResponses }

SchemaOf(type, nullable, key, fields) ==
    PyDict(<<[k |-> KeyNullable, v |-> PyBool(nullable)],
             [k |-> KeyType, v |-> type],
             [k |-> key, v |-> PyList([i \in 1..Len(fields) |-> PyStr(fields[i])])]>>)

Schemas ==
    { SchemaOf(TypeArray, n, KeyItemFields, fs) :
        n \in BOOLEAN, fs \in {<<>>, <<FieldUri, FieldRange>>, <<FieldRange, FieldUri>>} }
    \cup { SchemaOf(TypeObject, n, KeyRequiredFields, fs) :
        n \in BOOLEAN, fs \in {<<>>, <<FieldContents>>, <<FieldRange, FieldContents, FieldUri>>} }
    \cup { PyDict(<<[k |-> KeyType, v |-> TypeArray]>>),
           PyDict(<<[k |-> KeyType, v |-> TypeObject],
                    [k |-> KeyItemFields, v |-> PyList(<<PyStr(FieldUri)>>)]>>),
           PyDict(<<[k |-> KeyNullable, v |-> PyBool(TRUE)]>>),
           EmptyDict,
           PyDict(<<[k |-> KeyType, v |-> TypeString]>>),
           SchemaOf(TypeScalar, TRUE, KeyRequiredFields, <<FieldContents>>) }

NextValidate ==
    \E result \in Envelopes, schema \in Schemas : Validate(MethodHover, result, schema)

SpecValidate == Init /\ [][NextValidate]_vars

(***************************************************************************)
(* The compliance run: each test sends its request, looks the method's     *)
(* schema up and validates what send_request returned.                     *)
(***************************************************************************)
MaxTestCalls == 3

\* LSP_SCHEMAS, in the order of the source.
LSP_SCHEMAS ==
    PyDict(<<
      [k |-> MethodHover,
       v |-> SchemaOf(TypeObject, TRUE, KeyRequiredFields,
                      <<<<"c","o","n","t","e","n","t","s">>>>)],
      [k |-> <<"t","e","x","t","D","o","c","u","m","e","n","t","/","d","e","f","i","n","i","t","i","o","n">>,
       v |-> SchemaOf(TypeObject, TRUE, KeyRequiredFields,
                      <<<<"u","r","i">>, <<"r","a","n","g","e">>>>)],
      [k |-> <<"t","e","x","t","D","o","c","u","m","e","n","t","/","r","e","f","e","r","e","n","c","e","s">>,
       v |-> SchemaOf(TypeArray, TRUE, KeyItemFields,
                      <<<<"u","r","i">>, <<"r","a","n","g","e">>>>)],
      [k |-> <<"t","e","x","t","D","o","c","u","m","e","n","t","/","d","o","c","u","m","e","n","t","S","y","m","b","o","l">>,
       v |-> SchemaOf(TypeArray, TRUE, KeyItemFields,
                      <<<<"n","a","m","e">>, <<"k","i","n","d">>, <<"r","a","n","g","e">>, <<"s","e","l","e","c","t","i","o","n","R","a","n","g","e">>>>)],
      [k |-> <<"t","e","x","t","D","o","c","u","m","e","n","t","/","s","i","g","n","a","t","u","r","e","H","e","l","p">>,
       v |-> SchemaOf(TypeObject, TRUE, KeyRequiredFields,
                      <<<<"s","i","g","n","a","t","u","r","e","s">>>>)],
      [k |-> <<"t","e","x","t","D","o","c","u","m","e","n","t","/","c","o","d","e","A","c","t","i","o","n">>,
       v |-> SchemaOf(TypeArray, TRUE, KeyItemFields,
                      <<<<"t","i","t","l","e">>>>)],
      [k |-> <<"t","e","x","t","D","o","c","u","m","e","n","t","/","f","o","r","m","a","t","t","i","n","g">>,
       v |-> SchemaOf(TypeArray, TRUE, KeyItemFields,
                      <<<<"r","a","n","g","e">>, <<"n","e","w","T","e","x","t">>>>)],
      [k |-> <<"t","e","x","t","D","o","c","u","m","e","n","t","/","i","n","l","a","y","H","i","n","t">>,
       v |-> SchemaOf(TypeArray, TRUE, KeyItemFields,
                      <<<<"p","o","s","i","t","i","o","n">>, <<"l","a","b","e","l">>>>)],
      [k |-> <<"t","e","x","t","D","o","c","u","m","e","n","t","/","i","m","p","l","e","m","e","n","t","a","t","i","o","n">>,
       v |-> SchemaOf(TypeArray, TRUE, KeyItemFields,
                      <<<<"u","r","i">>, <<"r","a","n","g","e">>>>)],
      [k |-> <<"w","o","r","k","s","p","a","c","e","/","s","y","m","b","o","l">>,
       v |-> SchemaOf(TypeArray, TRUE, KeyItemFields,
                      <<<<"n","a","m","e">>, <<"k","i","n","d">>, <<"l","o","c","a","t","i","o","n">>>>)],
      [k |-> <<"t","e","x","t","D","o","c","u","m","e","n","t","/","t","y","p","e","D","e","f","i","n","i","t","i","o","n">>,
       v |-> SchemaOf(TypeObject, TRUE, KeyRequiredFields,
                      <<<<"u","r","i">>, <<"r","a","n","g","e">>>>)],
      [k |-> <<"t","e","x","t","D","o","c","u","m","e","n","t","/","s","e","m","a","n","t","i","c","T","o","k","e","n","s","/","f","u","l","l">>,
       v |-> SchemaOf(TypeObject, TRUE, KeyRequiredFields,
                      <<<<"d","a","t","a">>>>)] >>)

\* Faulty variant: a method without an entry gets the empty schema.
DefaultSchema_Empty == PyDict(<<>>)

\* The schema of a method without an entry: {"nullable": True}
DefaultSchema == PyDict(<<[k |-> KeyNullable, v |-> PyBool(TRUE)]>>)

\* LSP_SCHEMAS.get(method, {"nullable": True})
SchemaFor(method) == DictGetDefault(LSP_SCHEMAS, method, DefaultSchema)

\* `except Exception as e` of the test loop: the test ends at the exception.
Caught(method, exc) ==
    [NotValidated EXCEPT !.pc = "caught", !.name = method, !.raised = exc]

\* One turn of the test loop: send_request, the lookup, validate_schema.  An
\* exception of send_request ends the turn; so does the AttributeError of
\* result.get on a body that is no JSON object.
RunTest(method, params) ==
    /\ SendRequest(method, params)
    /\ validation' =
         IF last'.res # Returned THEN Caught(method, last'.res.exc)
         ELSE IF last'.value.t # "dict" THEN Caught(method, "AttributeError")
         ELSE Checked(method, last'.value, SchemaFor(method))
    /\ UNCHANGED <<wire, threads>>

MethodDefinition == <<"t","e","x","t","D","o","c","u","m","e","n","t","/","d","e","f","i","n","i","t","i","o","n">>
MethodReferences == <<"t","e","x","t","D","o","c","u","m","e","n","t","/","r","e","f","e","r","e","n","c","e","s">>
MethodCompletion == <<"t","e","x","t","D","o","c","u","m","e","n","t","/","c","o","m","p","l","e","t","i","o","n">>

\* The methods tested: three of the table, two without an entry.
Tests ==
    {MethodHover, MethodDefinition, MethodReferences, MethodInitialize, MethodCompletion}

\* What the server answers, each envelope with the frame that carries it.
Answers ==
    { [envelope |-> e, bytes |-> ServerFrame(<<>>, e)] :
        e \in { ResultOf(PyNone), EmptyDict, ResultOf(Hover), ResultOf(Location),
                ResultOf(EmptyDict), ResultOf(PyIntV(0)), ResultOf(PyStr(<<"x">>)),
                ResultOf(PyList(<<>>)), ResultOf(PyList(<<Location>>)),
                ResultOf(PyList(<<PyIntV(1)>>)),
                ErrorOf(MethodNotFound), ErrorAnd(PyNone, Hover) } }

NextComply ==
    \/ ncalls < MaxTestCalls /\ (\E ok \in BOOLEAN : Connect(ok)) /\ Idle
    \/ ncalls < MaxTestCalls /\ (\E method \in Tests : RunTest(method, PyNone))
                              /\ UNCHANGED run
    \/ ncalls < MaxTestCalls /\ (\E a \in Answers : PeerSend(a.bytes)) /\ Idle

SpecComply == Init /\ [][NextComply]_vars

(***************************************************************************)
(* Two callers in send_request on one client at the same time.  A step is  *)
(* one statement of send_request or one recv of _receive_response; the     *)
(* scheduler may change the running caller between any two steps, at most  *)
(* MaxSwitches times.  With threads.guarded the callers take one mutex     *)
(* around the whole call.                                                  *)
(***************************************************************************)
MaxSwitches == 2

Callers == {1, 2}

\* Caller t is scheduled.
Scheduled(t) ==
    /\ threads.pc = "run"
    /\ threads.running \in {0, t} \/ threads.switches < MaxSwitches

\* threads after caller t has run one step that leaves it as `after`.  The
\* mutex is released when the call has returned or raised.
Ran(t, after) ==
    [threads EXCEPT
       !.running = t,
       !.switches = IF threads.running \in {0, t} THEN @ ELSE @ + 1,
       !.lock = IF after.pc \in {"done", "raised"} /\ threads.lock = t THEN 0 ELSE @,
       !.c = [@ EXCEPT ![t] = after]]

\* connect() by the thread that starts the callers.
Open(guarded) ==
    /\ threads.pc = "idle"
    /\ Connect(TRUE)
    /\ threads' = [threads EXCEPT !.pc = "run", !.guarded = guarded]
    /\ UNCHANGED <<wire, validation, run>>

\* Caller t enters send_request, after taking the mutex when there is one:
\* `if not self.sock: raise ConnectionError("Not connected")`
Enter(t) ==
    /\ Scheduled(t)
    /\ threads.c[t].pc = "start"
    /\ threads.guarded => threads.lock = 0
    /\ LET me    == threads.c[t]
           after == IF sock = NoSock
                    THEN [me EXCEPT !.pc = "raised", !.res = NotConnected]
                    ELSE [me EXCEPT !.pc = "load"]
       IN  threads' =
             [Ran(t, after) EXCEPT
                !.lock = IF threads.guarded /\ after.pc = "load" THEN t ELSE threads.lock]
    /\ UNCHANGED <<Client, wire, validation, run>>

\* `self.request_id += 1`, the read
LoadCounter(t) ==
    /\ Scheduled(t)
    /\ threads.c[t].pc = "load"
    /\ threads' = Ran(t, [threads.c[t] EXCEPT !.pc = "store", !.loaded = request_id])
    /\ UNCHANGED <<Client, wire, validation, run>>

\* `self.request_id += 1`, the write
StoreCounter(t) ==
    /\ Scheduled(t)
    /\ threads.c[t].pc = "store"
    /\ request_id' = NextId(threads.c[t].loaded)
    /\ threads' = Ran(t, [threads.c[t] EXCEPT !.pc = "build"])
    /\ UNCHANGED <<sock, net, last, ncalls, issued, id_at_connect, wire, validation, run>>

\* request = {..., "id": self.request_id, ...}
BuildRequest(t, method, params) ==
    /\ Scheduled(t)
    /\ threads.c[t].pc = "build"
    /\ threads' = Ran(t, [threads.c[t] EXCEPT
                            !.pc = "send", !.id = request_id,
                            !.message = Request(request_id, method, params)])
    /\ UNCHANGED <<Client, wire, validation, run>>

\* self._send_message(request)
Write(t) ==
    /\ Scheduled(t)
    /\ threads.c[t].pc = "send"
    /\ net' = [net EXCEPT ![sock] = SendMessage(@, threads.c[t].message, TRUE)]
    /\ threads' = Ran(t, [threads.c[t] EXCEPT !.pc = "header"])
    /\ UNCHANGED <<sock, request_id, last, ncalls, issued, id_at_connect, wire, validation, run>>

\* One turn of the header loop: recv(1), which blocks while nothing has
\* arrived; once the buffer holds CRLFCRLF, the Content-Length loop.
RecvHeaderByte(t) ==
    /\ Scheduled(t)
    /\ threads.c[t].pc = "header"
    /\ net[sock].inbound # <<>>
    /\ net' = [net EXCEPT ![sock].inbound = Tail(@)]
    /\ LET me         == threads.c[t]
           header     == Append(me.header, Head(net[sock].inbound))
           header_str == Utf8Decode(header)
           cl         == IF header_str.ok THEN ContentLength(header_str.val)
                         ELSE [ok |-> FALSE, val |-> 0]
       IN  threads' = Ran(t,
             IF ~Contains(header, CRLFCRLF) THEN [me EXCEPT !.header = header]
             ELSE IF ~header_str.ok
                  THEN [me EXCEPT !.header = header, !.pc = "raised", !.res = BadUtf8]
             ELSE IF ~cl.ok
                  THEN [me EXCEPT !.header = header, !.pc = "raised",
                                  !.res = BadContentLength]
             ELSE [me EXCEPT !.header = header, !.content_length = cl.val,
                             !.pc = IF BodyDone(<<>>, cl.val) THEN "decode" ELSE "body"])
    /\ UNCHANGED <<sock, request_id, last, ncalls, issued, id_at_connect, wire, validation, run>>

\* One turn of the body loop: recv(content_length - len(body)) returns what
\* has arrived, up to that many bytes.
RecvBodyChunk(t) ==
    /\ Scheduled(t)
    /\ threads.c[t].pc = "body"
    /\ net[sock].inbound # <<>>
    /\ LET me   == threads.c[t]
           want == me.content_length - Len(me.body)
           n    == IF want < Len(net[sock].inbound) THEN want ELSE Len(net[sock].inbound)
           body == me.body \o SubSeq(net[sock].inbound, 1, n)
       IN  /\ net' = [net EXCEPT ![sock].inbound = SubSeq(@, n + 1, Len(@))]
           /\ threads' = Ran(t, [me EXCEPT
                  !.body = body,
                  !.pc = IF BodyDone(body, me.content_length) THEN "decode" ELSE "body"])
    /\ UNCHANGED <<sock, request_id, last, ncalls, issued, id_at_connect, wire, validation, run>>

\* return json.loads(body.decode('utf-8')), out of send_request
DecodeResponse(t) ==
    /\ Scheduled(t)
    /\ threads.c[t].pc = "decode"
    /\ LET dec == DecodeBody(threads.c[t].body)
       IN  threads' = Ran(t, [threads.c[t] EXCEPT
                  !.pc = IF dec.res = Returned THEN "done" ELSE "raised",
                  !.res = dec.res, !.value = dec.value])
    /\ UNCHANGED <<Client, wire, validation, run>>

\* The response the server writes to the request with this id.
ResponseTo(id) == Reply(id, ResultNull)

\* The server answers the oldest request it has not answered yet: one frame
\* with the request's id, appended to the stream.
Answer ==
    /\ threads.pc = "run"
    /\ threads.served < Len(net[sock].out)
    /\ LET request == net[sock].out[threads.served + 1].msg
       IN  net' = [net EXCEPT ![sock].inbound =
                     @ \o ServerFrame(<<>>, ResponseTo(DictGet(request, KeyId).v))]
    /\ threads' = [threads EXCEPT !.served = @ + 1]
    /\ UNCHANGED <<sock, request_id, last, ncalls, issued, id_at_connect, wire, validation, run>>

NextThreads ==
    \/ \E guarded \in BOOLEAN : Open(guarded)
    \/ \E t \in Callers : Enter(t)
    \/ \E t \in Callers : LoadCounter(t)
    \/ \E t \in Callers : StoreCounter(t)
    \/ \E t \in Callers : BuildRequest(t, MethodInitialize, PyNone)
    \/ \E t \in Callers : Write(t)
    \/ \E t \in Callers : RecvHeaderByte(t)
    \/ \E t \in Callers : RecvBodyChunk(t)
    \/ \E t \in Callers : DecodeResponse(t)
    \/ Answer

SpecThreads == Init /\ [][NextThreads]_vars

(***************************************************************************)
(* One request in flight: the server answers every request it receives     *)
(* with one frame that carries the request's id, and writes nothing else.  *)
(***************************************************************************)
MaxExchanges == 4

\* send_request on an open connection to such a server: the frame is written,
\* the server appends its answer to the stream, _receive_response reads.
Exchange(method, params, envelope) ==
    /\ Called
    /\ sock # NoSock
    /\ SendOutcomes(net[sock]) = {TRUE}
    /\ LET rid     == NextId(request_id)
           request == Request(rid, method, params)
           answer  == ServerFrame(<<>>, Reply(DictGet(request, KeyId).v, envelope))
           avail   == net[sock].inbound \o answer
           r       == ReceiveResponse(avail, FALSE)
       IN  /\ request_id' = rid
           /\ issued' = Append(issued, rid)
           /\ net' = [net EXCEPT ![sock] =
                        [SendMessage(@, request, TRUE) EXCEPT !.inbound = r.rest]]
           /\ last' = [Call("send_request", r.res, r.value, "")
                         EXCEPT !.sent = TRUE,
                                !.input = [avail |-> avail, eof |-> FALSE]]
    /\ UNCHANGED <<sock, id_at_connect>>

\* What the server puts under the id.
AnswerEnvelopes == {ResultNull, ErrorEnvelope, ResultOf(Hover)}

NextPairing ==
    \/ ncalls < MaxExchanges /\ (\E ok \in BOOLEAN : Connect(ok)) /\ Idle
    \/ ncalls < MaxExchanges /\ Disconnect(FALSE) /\ Idle
    \/ ncalls < MaxExchanges
         /\ (\E c \in ApiCalls, e \in AnswerEnvelopes : Exchange(c.method, c.params, e))
         /\ Idle
    \/ ncalls < MaxExchanges
         /\ sock # NoSock /\ SendOutcomes(net[sock]) = {TRUE}
         /\ (\E c \in ApiCalls : SendNotification(c.method, c.params))
         /\ Idle

SpecPairing == Init /\ [][NextPairing]_vars

(***************************************************************************)
(* compliance.run from start to end: connect, the test loop, the summary,  *)
(* and disconnect in the finally clause.                                   *)
(***************************************************************************)
MaxProbes == 3

\* The methods of the tests list: those of LSP_SCHEMAS, in the same order.
Probes == [i \in 1..Len(LSP_SCHEMAS.v) |-> LSP_SCHEMAS.v[i].k]
ProbeList == SubSeq(Probes, 1, MaxProbes)
ProbeParams == PyDict(<<[k |-> FieldUri, v |-> PyStr(<<"f">>)]>>)

\* Faulty variant: a verdict that passed is recorded as passed whatever the
\* envelope carries.
Recorded_IgnoresError(method, v) ==
    IF v.pc = "caught" \/ v.raised # ""
    THEN [method |-> method, passed |-> FALSE, why |-> "exception"]
    ELSE [method |-> method, passed |-> TRUE, why |-> "compliant"]

\* What one turn of the loop appends to results, v being what send_request
\* and validate_schema left: (method, False, str(e)) from the except clause,
\* also for the AttributeError of response[0].keys() in the print of a
\* passed array; (method, False, str(error)); (method, True, "Compliant");
\* (method, False, the issues).
Recorded(method, v) ==
    LET response == DictGet(v.result, KeyResult)
    IN  IF v.pc = "caught" \/ v.raised # ""
        THEN [method |-> method, passed |-> FALSE, why |-> "exception"]
        ELSE IF Truthy(DictGet(v.result, KeyError))
        THEN [method |-> method, passed |-> FALSE, why |-> "error"]
        ELSE IF v.ok
        THEN IF response.t = "list" /\ Truthy(response) /\ response.v[1].t # "dict"
             THEN [method |-> method, passed |-> FALSE, why |-> "exception"]
             ELSE [method |-> method, passed |-> TRUE, why |-> "compliant"]
        ELSE [method |-> method, passed |-> FALSE, why |-> "issues"]

\* `if not client.connect(): return`
RunConnect(ok) ==
    /\ run.pc = "start"
    /\ Connect(ok)
    /\ run' = [run EXCEPT !.pc = IF ok THEN "loop" ELSE "finally",
                          !.connected = ok,
                          !.exit = IF ok THEN "" ELSE "connect failed"]
    /\ UNCHANGED <<wire, threads, validation>>

\* One turn of `for method, params in tests`.
RunProbe ==
    /\ run.pc = "loop"
    /\ run.i <= Len(ProbeList)
    /\ RunTest(ProbeList[run.i], ProbeParams)
    /\ run' = [run EXCEPT !.i = @ + 1,
                          !.results = Append(@, Recorded(ProbeList[run.i], validation'))]

\* The summary after the loop: passed_count and total.
RunSummary ==
    /\ run.pc = "loop"
    /\ run.i > Len(ProbeList)
    /\ run' = [run EXCEPT
                 !.pc = "finally", !.exit = "completed",
                 !.passed_count =
                    Cardinality({i \in 1..Len(run.results) : run.results[i].passed}),
                 !.total = Len(run.results)]
    /\ UNCHANGED <<Client, wire, validation, threads>>

\* An exception that the loop's `except Exception` does not catch (a keyboard
\* interrupt) leaves the try block between two turns.
RunInterrupt ==
    /\ run.pc = "loop"
    /\ run' = [run EXCEPT !.pc = "finally", !.exit = "exception"]
    /\ UNCHANGED <<Client, wire, validation, threads>>

\* Faulty variant: the finally clause does nothing.
RunFinally_Skips(close_fails) ==
    /\ run.pc = "finally"
    /\ ~close_fails
    /\ run' = [run EXCEPT !.pc = "exited"]
    /\ UNCHANGED <<Client, wire, validation, threads>>

\* finally: client.disconnect()
RunFinally(close_fails) ==
    /\ run.pc = "finally"
    /\ Disconnect(close_fails)
    /\ run' = [run EXCEPT !.pc = "exited"]
    /\ UNCHANGED <<wire, validation, threads>>

\* What the server answers during the run.
RunAnswers ==
    { ServerFrame(<<>>, e) :
        e \in { ResultOf(Hover), ResultOf(PyNone), ResultOf(Location),
                ResultOf(PyList(<<Location>>)), ResultOf(PyList(<<PyIntV(1)>>)),
                ResultOf(PyList(<<PyStr(<<"u","r","i"," ","r","a","n","g","e">>)>>)),
                ErrorOf(MethodNotFound), ErrorAnd(EmptyDict, Hover) } }

NextRun ==
    \/ \E ok \in BOOLEAN : RunConnect(ok)
    \/ RunProbe
    \/ RunSummary
    \/ RunInterrupt
    \/ \E close_fails \in BOOLEAN : RunFinally(close_fails)
    \/ run.pc = "loop" /\ (\E bytes \in RunAnswers : PeerSend(bytes)) /\ Idle
    \/ run.pc = "loop" /\ PeerClose /\ Idle

SpecRun == Init /\ [][NextRun]_vars

(***************************************************************************)
(* Vocabulary of the properties.                                           *)
(***************************************************************************)
\* The step is an API call.
ApiStep == ncalls' = ncalls + 1

SendOps == {"send_request", "send_notification"}

\* The ids of the request envelopes written on socket s, in write order.
RequestIdsOn(s) ==
    LET isReq(w) == HasKey(w.msg, KeyId)
        reqs == SelectSeq(s.out, isReq)
    IN  [i \in 1..Len(reqs) |-> DictGet(reqs[i].msg, KeyId).v]

\* The message written last on socket s.
LastWritten(s) == s.out[Len(s.out)].msg

OpenConnections == {h \in 1..Len(net) : net[h].st = "connected"}

C3_CounterNeverRepeats ==
    [][ /\ request_id' >= request_id
        /\ (ApiStep /\ last'.op = "send_request" /\ sock # NoSock) =>
              /\ request_id' = request_id + 1
              /\ issued' = Append(issued, request_id')
              /\ \A i \in 1..Len(issued) : issued[i] < request_id'
        /\ (ApiStep /\ last'.op = "send_notification") => request_id' = request_id
      ]_vars

\* The first write on the connection failed, and a later request took a
\* greater id.
C3_Witness ==
    /\ sock # NoSock
    /\ net[sock].broken
    /\ net[sock].out = <<>>
    /\ Len(issued) >= 2
    /\ issued[2] > issued[1]
    /\ last.res = SendFailed

(***************************************************************************)
(* C4.  With self.sock None (never connected, or after disconnect()),      *)
(* send_request and send_notification raise ConnectionError("Not           *)
(* connected"), write nothing and leave the id counter unchanged.          *)
(***************************************************************************)
C4_NotConnectedRaises ==
    [][(ApiStep /\ sock = NoSock /\ last'.op \in SendOps) =>
          /\ last'.res = NotConnected
          /\ ~last'.sent
          /\ net' = net
          /\ request_id' = request_id
          /\ sock' = NoSock]_vars

\* A send_request refused after a disconnect() that followed a request.
C4_Witness ==
    /\ last.op = "send_request"
    /\ last.res = NotConnected
    /\ request_id >= 1
    /\ Len(net) >= 1
    /\ net[Len(net)].st = "closed"

(***************************************************************************)
(* C5.  When the peer has delivered a strict prefix of a well-formed       *)
(* response frame and closed, a send_request whose write went through      *)
(* raises ConnectionError("Connection closed") and returns no envelope;    *)
(* whatever the write does, the call does not return.                      *)
(***************************************************************************)
StrictFramePrefixes == UNION {StrictPrefixes(f) : f \in WellFormedFrames}

C5_ClosedMidFrameRaises ==
    /\ []((/\ last.op = "send_request"
           /\ last.sent
           /\ last.input.eof
           /\ last.input.avail \in StrictFramePrefixes)
          => (last.res = ConnectionClosed /\ last.value = PyNone))
    /\ [][(/\ ApiStep
           /\ last'.op = "send_request"
           /\ sock # NoSock
           /\ net[sock].eof
           /\ net[sock].inbound \in StrictFramePrefixes)
          => last'.res \in {ConnectionClosed, SendFailed}]_vars

\* The peer closed after the whole header block and a part of the body.
C5_Witness ==
    /\ last.op = "send_request"
    /\ last.res = ConnectionClosed
    /\ last.input.eof
    /\ last.input.avail \in StrictFramePrefixes
    /\ HeaderEnd(last.input.avail) # 0
    /\ Len(last.input.avail) > HeaderEnd(last.input.avail)

(***************************************************************************)
(* C6.  As claimed: a complete header block followed by the peer's close,  *)
(* with no body byte, makes the decode fail with ConnectionError           *)
(* ("Connection closed"), for every header block.                          *)
(***************************************************************************)
BareHeaderThenClose ==
    /\ last.op = "send_request"
    /\ last.sent
    /\ last.input.eof
    /\ last.input.avail # <<>>
    /\ HeaderEnd(last.input.avail) = Len(last.input.avail)

C6_BareHeaderRaisesClosed == BareHeaderThenClose => last.res = ConnectionClosed

\* C6, amended: a complete header block followed by the peer's close, with no
\* body byte, never yields an envelope; the call raises ConnectionError
\* ("Connection closed") for every header block that declares a Content-Length
\* of at least 1.
C6_PositiveLengthHeaderRaisesClosed ==
    BareHeaderThenClose =>
        /\ last.res # Returned
        /\ last.input.avail \in PositiveBareHeaders => last.res = ConnectionClosed

\* A header block with a Content-Type line and Content-Length: 16, then close.
C6_Witness ==
    /\ BareHeaderThenClose
    /\ last.input.avail = HeaderBlock(<<ContentTypeLine, ContentLengthLine(16)>>)
    /\ last.res = ConnectionClosed

(***************************************************************************)
(* C7.  As claimed: once a send_request has failed because the peer closed *)
(* the stream, the client is not connected, and every further send_request *)
(* or send_notification raises the not-connected error.                    *)
(***************************************************************************)
C7_ClosedStreamDisconnects ==
    [][(last.op = "send_request" /\ last.res = ConnectionClosed) =>
          /\ sock = NoSock
          /\ (ApiStep /\ last'.op \in SendOps) => last'.res = NotConnected]_vars

(***************************************************************************)
(* C8.  As claimed: at every point of every sequence of connect() and      *)
(* disconnect() calls at most one connection of the client is open.        *)
(***************************************************************************)
C8_AtMostOneOpenConnection == Cardinality(OpenConnections) <= 1

(***************************************************************************)
(* C9.  disconnect() never raises and leaves self.sock None, the socket it *)
(* named closed and the id counter untouched, also when close() fails; a   *)
(* disconnect() right after a disconnect() changes nothing.                *)
(***************************************************************************)
C9_DisconnectIdempotent ==
    [][(ApiStep /\ last'.op = "disconnect") =>
          /\ last'.res = Returned
          /\ sock' = NoSock
          /\ request_id' = request_id
          /\ sock # NoSock => net'[sock].st = "closed"
          /\ sock = NoSock => net' = net
          /\ last.op = "disconnect" => (sock' = sock /\ net' = net)]_vars

\* disconnect() has returned without printing (close() failed, or there was
\* nothing to close) on a client whose socket is closed.
C9_Witness ==
    /\ last.op = "disconnect"
    /\ last.printed = ""
    /\ sock = NoSock
    /\ Len(net) >= 1
    /\ \A h \in 1..Len(net) : net[h].st = "closed"

(***************************************************************************)
(* C10.  send_notification writes one frame, whose envelope has no id key, *)
(* reads nothing from the inbound stream and leaves the id counter         *)
(* unchanged; a send_request whose frame is written advances the counter   *)
(* by exactly one and writes that id.                                      *)
(***************************************************************************)
C10_NotificationHasNoId ==
    [][ /\ (ApiStep /\ last'.op = "send_notification" /\ sock # NoSock) =>
              /\ request_id' = request_id
              /\ net'[sock].inbound = net[sock].inbound
              /\ last'.input = NoInput
              /\ last'.sent =>
                    /\ Len(net'[sock].out) = Len(net[sock].out) + 1
                    /\ SubSeq(net'[sock].out, 1, Len(net[sock].out)) = net[sock].out
                    /\ ~HasKey(LastWritten(net'[sock]), KeyId)
                    /\ HasKey(LastWritten(net'[sock]), KeyMethod)
              /\ ~last'.sent => net'[sock].out = net[sock].out
        /\ (ApiStep /\ last'.op = "send_request" /\ last'.sent) =>
              /\ request_id' = request_id + 1
              /\ Len(net'[sock].out) = Len(net[sock].out) + 1
              /\ DictGet(LastWritten(net'[sock]), KeyId) = PyIntV(request_id')
      ]_vars

\* A notification written after a request, with unread bytes waiting.
C10_Witness ==
    /\ last.op = "send_notification"
    /\ last.sent
    /\ request_id >= 1
    /\ sock # NoSock
    /\ net[sock].inbound # <<>>
    /\ Len(net[sock].out) >= 2

\* The whole frames the peer of Spec sends, each with the envelope it carries.
WholeFrames ==
    { [envelope |-> ResultNull, bytes |-> ServerFrame(<<>>, ResultNull)],
      [envelope |-> ErrorEnvelope,
       bytes |-> ServerFrame(<<ContentTypeLine>>, ErrorEnvelope)],
      BackToBack[1], BackToBack[2] }

(***************************************************************************)
(* C11.  A send_request that finds a whole frame (a header block and as    *)
(* many body bytes as its Content-Length declares) at the head of the      *)
(* inbound stream returns that frame's envelope, whatever id it carries,   *)
(* and leaves every byte behind the frame unread; a send_request returns   *)
(* only in that case.  So frames written back to back are returned in      *)
(* order by successive calls.                                              *)
(***************************************************************************)
C11_OneFramePerRequest ==
    [][(/\ ApiStep
        /\ last'.op = "send_request"
        /\ last'.sent)
       => /\ \A f \in WholeFrames :
                StartsWith(last'.input.avail, f.bytes)
                => /\ last'.res = Returned
                   /\ last'.value = f.envelope
                   /\ net'[sock'].inbound =
                        SubSeq(last'.input.avail, Len(f.bytes) + 1,
                               Len(last'.input.avail))
          /\ last'.res = Returned
             => \E f \in WholeFrames : StartsWith(last'.input.avail, f.bytes)
      ]_vars

\* The second of two requests has returned the second of two frames that
\* arrived back to back; its id is 2, the frame's is 1.
C11_Witness ==
    /\ last.op = "send_request"
    /\ last.res = Returned
    /\ issued = <<1, 2>>
    /\ last.input.avail = BackToBack[2].bytes
    /\ last.value = BackToBack[2].envelope
    /\ DictGet(last.value, KeyId) = PyIntV(1)
    /\ net[sock].inbound = <<>>

(***************************************************************************)
(* C12.  The Content-Length written in the header of an outgoing frame is  *)
(* the number of bytes that follow the header, also when method or params  *)
(* hold non-ASCII characters: read back by the client's own header parse,  *)
(* the declared length is the length of what was written minus the length  *)
(* of the header block.                                                    *)
(***************************************************************************)
C12_ContentLengthIsByteCount ==
    (wire.echo /\ wire.pc # "header")
    => /\ wire.header_len > 0
       /\ wire.content_length = Len(wire.sent) - wire.header_len

\* A request with non-ASCII method and params has been written and its header
\* read back.
C12_Witness ==
    /\ wire.echo
    /\ wire.pc = "body"
    /\ DictGet(wire.message, KeyMethod) = PyStr(MethodCafe)
    /\ wire.content_length = Len(wire.sent) - wire.header_len
    /\ wire.content_length > 0

(***************************************************************************)
(* C13.  However the reads split a frame into pieces, one byte per read    *)
(* included, _receive_response ends as it does when each recv finds all    *)
(* the bytes it asks for: the same envelope or the same error.  When it    *)
(* returns, the body it decoded is exactly the Content-Length bytes behind *)
(* the header block.                                                       *)
(***************************************************************************)
C13_SplitReadsSameEnvelope ==
    /\ wire.pc \in {"returned", "raised"}
       => (wire.res = wire.single.res /\ wire.value = wire.single.value)
    /\ wire.pc = "returned"
       => /\ Len(wire.body) = wire.content_length
          /\ wire.body = SubSeq(wire.bytes, wire.header_len + 1,
                                wire.header_len + wire.content_length)

\* A frame whose body holds a two-byte character has arrived one byte per
\* read and its envelope has been returned.
C13_Witness ==
    /\ ~wire.echo
    /\ wire.pc = "returned"
    /\ wire.bytes = RawUtf8Frame
    /\ wire.ends = EndsEvery(Len(RawUtf8Frame), 1)
    /\ wire.value = PyDict(<<[k |-> KeyResult, v |-> PyStr(<<"U+00E9">>)]>>)

(***************************************************************************)
(* C14.  Framing round trip: the bytes _send_message writes for a message, *)
(* read by _receive_response, give back a dict equal to the message.       *)
(***************************************************************************)
C14_FramingRoundTrip ==
    (wire.echo /\ wire.pc \notin {"header", "body"})
    => /\ wire.pc = "returned"
       /\ wire.res = Returned
       /\ wire.value = wire.message

\* The request with non-ASCII method, quotes and backslashes in its params
\* has come back whole, read in several pieces.
C14_Witness ==
    /\ wire.echo
    /\ wire.pc = "returned"
    /\ wire.value = wire.message
    /\ DictGet(wire.message, KeyId) = PyIntV(3)
    /\ Cardinality(wire.ends) > 2

(***************************************************************************)
(* C15.  As claimed: the type of the error a call raises tells its cause.  *)
(* A send call that raised an error of the type raised for "not            *)
(* connected" found no connection and wrote nothing.  Refuted: the error   *)
(* for a stream the peer closed has the same type, ConnectionError.        *)
(***************************************************************************)
C15_ErrorTypeTellsCause ==
    (last.op \in SendOps /\ last.res.exc = NotConnected.exc)
    => (sock = NoSock /\ ~last.sent)

\* The call of validate_schema has ended; the envelope it was given, with or
\* without an error key; its result and the kind its schema names.
Validated == validation.pc = "done"
CarriesError == HasKey(validation.result, KeyError)
Response == DictGet(validation.result, KeyResult)
Kind == DictGet(validation.schema, KeyType)
Outcome ==
    [raised |-> validation.raised, ok |-> validation.ok, issues |-> validation.issues]

(***************************************************************************)
(* C16.  As claimed: an envelope that carries an error key fails, with     *)
(* exactly one issue, which describes the error, whatever the schema and   *)
(* whatever the value under the key.  Refuted for the values Python holds  *)
(* false: null, 0, {}.                                                     *)
(***************************************************************************)
C16_ErrorAlwaysFails ==
    (Validated /\ CarriesError)
    => /\ validation.raised = ""
       /\ ~validation.ok
       /\ Len(validation.issues) = 1
       /\ validation.issues[1] =
            ErrorResponseText \o PyStrOf(DictGet(validation.result, KeyError))

(***************************************************************************)
(* C17.  For an envelope with no error key whose result is null or absent, *)
(* validate_schema returns (True, []) when the schema's nullable flag is   *)
(* true and (False, ["Returned null but schema does not allow it"])        *)
(* otherwise, whatever the schema's type and field lists.                  *)
(***************************************************************************)
C17_NullPassesIffNullable ==
    (Validated /\ ~CarriesError /\ Response = PyNone)
    => IF DictGet(validation.schema, KeyNullable) = PyBool(TRUE)
       THEN Outcome = [raised |-> "", ok |-> TRUE, issues |-> <<>>]
       ELSE Outcome = [raised |-> "", ok |-> FALSE, issues |-> <<NullNotAllowedText>>]

\* An envelope without a result key has failed against an array schema that
\* has no nullable flag.
C17_Witness ==
    /\ Validated
    /\ validation.result = EmptyDict
    /\ validation.schema = PyDict(<<[k |-> KeyType, v |-> TypeArray]>>)
    /\ ~validation.ok
    /\ validation.issues = <<NullNotAllowedText>>

(***************************************************************************)
(* C18.  As claimed: for a schema of type array and a non-null result, a   *)
(* result that is no array fails with one issue, and an array yields as    *)
(* issues exactly "Array item missing required field: <name>" for each     *)
(* name of itemFields that is no key of the first element, in order, and   *)
(* passes when there is none.  Refuted for a first element that is no      *)
(* object: the call raises TypeError, or looks for the name inside a       *)
(* string or among the elements of a list.                                 *)
(***************************************************************************)
C18_ArrayItemFields ==
    (Validated /\ ~CarriesError /\ Response # PyNone /\ Kind = TypeArray)
    => IF Response.t # "list"
       THEN /\ validation.raised = ""
            /\ ~validation.ok
            /\ Len(validation.issues) = 1
       ELSE LET fields    == DictGetDefault(validation.schema, KeyItemFields,
                                            PyList(<<>>)).v
                absent(f) == ~(Response.v[1].t = "dict" /\ HasKey(Response.v[1], f.v))
                missing   == IF Response.v = <<>> THEN <<>> ELSE SelectSeq(fields, absent)
                expected  == [i \in 1..Len(missing) |->
                                ArrayItemMissingText \o missing[i].v]
            IN  Outcome = [raised |-> "", ok |-> expected = <<>>, issues |-> expected]

(***************************************************************************)
(* C19.  For a schema of type array only the first element of the result   *)
(* is inspected: an array with the same first element gets the same        *)
(* outcome, whatever its other elements are.                               *)
(***************************************************************************)
C19_OnlyFirstItemInspected ==
    (/\ Validated
     /\ ~CarriesError
     /\ Kind = TypeArray
     /\ Response.t = "list"
     /\ Response.v # <<>>)
    => \A other \in ArrayResponses :
          (other.v # <<>> /\ other.v[1] = Response.v[1])
          => ValidateSchema(ResultOf(other), validation.schema) = Outcome

\* An array whose first element has both fields and whose second has none
\* has passed.
C19_Witness ==
    /\ Validated
    /\ validation.result = ResultOf(PyList(<<Location, EmptyDict>>))
    /\ validation.schema =
         SchemaOf(TypeArray, FALSE, KeyItemFields, <<FieldUri, FieldRange>>)
    /\ validation.ok

(***************************************************************************)
(* C20.  For a schema of type object and a non-null result, a result that  *)
(* is no object fails with one issue, and an object yields as issues       *)
(* exactly "Missing required field: <name>" for each name of               *)
(* requiredFields that is no key of it, in order, and passes when there is *)
(* none.                                                                   *)
(***************************************************************************)
C20_ObjectRequiredFields ==
    (Validated /\ ~CarriesError /\ Response # PyNone /\ Kind = TypeObject)
    => IF Response.t # "dict"
       THEN /\ validation.raised = ""
            /\ ~validation.ok
            /\ Len(validation.issues) = 1
       ELSE LET fields    == DictGetDefault(validation.schema, KeyRequiredFields,
                                            PyList(<<>>)).v
                absent(f) == ~HasKey(Response, f.v)
                missing   == SelectSeq(fields, absent)
                expected  == [i \in 1..Len(missing) |->
                                MissingRequiredText \o missing[i].v]
            IN  Outcome = [raised |-> "", ok |-> expected = <<>>, issues |-> expected]

\* An object with one of three required fields has failed with the two
\* others as issues, in the schema's order.
C20_Witness ==
    /\ Validated
    /\ validation.result = ResultOf(OnlyRange)
    /\ validation.schema =
         SchemaOf(TypeObject, TRUE, KeyRequiredFields,
                  <<FieldRange, FieldContents, FieldUri>>)
    /\ validation.issues = <<MissingRequiredText \o FieldContents,
                             MissingRequiredText \o FieldUri>>

(***************************************************************************)
(* C21.  Whenever validate_schema returns, for every envelope and every    *)
(* schema, the issue list it returns is empty if and only if the flag it   *)
(* returns is True.                                                        *)
(***************************************************************************)
C21_IssuesEmptyIffPassed ==
    (Validated /\ validation.raised = "")
    => (validation.ok <=> validation.issues = <<>>)

\* An object that lacks all three required fields has failed with three
\* issues.
C21_Witness ==
    /\ Validated
    /\ validation.raised = ""
    /\ ~validation.ok
    /\ Len(validation.issues) = 3
    /\ Response = EmptyDict

(***************************************************************************)
(* C22.  As claimed: validate_schema never raises; for every envelope and  *)
(* every schema it returns a verdict, also when the result is an array     *)
(* whose first element is a number, a string, null or a nested array.      *)
(* Refuted for a first element that is a number or null: `field in item`   *)
(* raises TypeError.                                                       *)
(***************************************************************************)
C22_NeverRaises == Validated => validation.raised = ""

(***************************************************************************)
(* C23.  As claimed: for a schema that names a type other than array and   *)
(* object, validate_schema gives no pass verdict for a non-null result.    *)
(* Refuted: no branch looks at such a type, the issue list stays empty and *)
(* the call returns (True, []).                                            *)
(***************************************************************************)
C23_UnknownKindRejected ==
    ( /\ Validated
      /\ ~CarriesError
      /\ Response # PyNone
      /\ HasKey(validation.schema, KeyType)
      /\ Kind \notin {TypeArray, TypeObject} )
    => ~(validation.raised = "" /\ validation.ok)

(***************************************************************************)
(* C24.  A method without an entry in LSP_SCHEMAS is validated against     *)
(* {"nullable": True}: every envelope without an error key that            *)
(* send_request returns for it passes with no issues, whatever its result. *)
(***************************************************************************)
C24_NoEntryPassesAll ==
    (Validated /\ ~HasKey(LSP_SCHEMAS, validation.name) /\ ~CarriesError)
    => /\ validation.schema = DefaultSchema
       /\ Outcome = [raised |-> "", ok |-> TRUE, issues |-> <<>>]

\* An array whose first element is a number has passed for a method without
\* an entry.
C24_Witness ==
    /\ Validated
    /\ validation.name = MethodCompletion
    /\ validation.result = ResultOf(PyList(<<PyIntV(1)>>))
    /\ validation.ok

(***************************************************************************)
(* C25.  When the stream holds one well-formed frame of the server,        *)
(* send_request returns the envelope of that frame, and the test of        *)
(* textDocument/hover validates an envelope without an error whose result  *)
(* is an object with the key contents as (True, []), against the schema    *)
(* {nullable: True, type: object, requiredFields: [contents]}.             *)
(***************************************************************************)
C25_EndToEnd ==
    /\ \A a \in Answers :
         (last.op = "send_request" /\ last.sent /\ last.input.avail = a.bytes)
         => (last.res = Returned /\ last.value = a.envelope)
    /\ ( /\ Validated
         /\ validation.name = MethodHover
         /\ ~CarriesError
         /\ Response.t = "dict"
         /\ HasKey(Response, FieldContents) )
       => /\ validation.schema =
               SchemaOf(TypeObject, TRUE, KeyRequiredFields, <<FieldContents>>)
          /\ Outcome = [raised |-> "", ok |-> TRUE, issues |-> <<>>]

\* The hover request has returned the server's envelope, and it has passed.
C25_Witness ==
    /\ last.op = "send_request"
    /\ last.res = Returned
    /\ last.value = ResultOf(Hover)
    /\ Validated
    /\ validation.name = MethodHover
    /\ validation.result = ResultOf(Hover)
    /\ validation.ok

(***************************************************************************)
(* C26.  No call retries.  connect() creates one socket, makes its one     *)
(* attempt on it and returns whether it succeeded, without raising.        *)
(* send_request and send_notification create no socket and write at most   *)
(* one frame, on self.sock only: exactly one when sendall goes through,    *)
(* also when the read that follows fails, and none when it does not.       *)
(***************************************************************************)
C26_NoRetry ==
    [][ApiStep =>
          /\ last'.op = "connect" =>
               /\ Len(net') = Len(net) + 1
               /\ sock' = Len(net')
               /\ last'.res = Returned
               /\ last'.value = PyBool(net'[sock'].st = "connected")
          /\ last'.op \in SendOps =>
               /\ Len(net') = Len(net)
               /\ sock' = sock
               /\ \A h \in 1..Len(net) :
                    Len(net'[h].out) =
                      Len(net[h].out) + (IF h = sock /\ last'.sent THEN 1 ELSE 0)]_vars

\* A send_request whose read failed has left its frame written once, the only
\* frame on the only socket.
C26_Witness ==
    /\ last.op = "send_request"
    /\ last.sent
    /\ last.res = ConnectionClosed
    /\ Len(net) = 1
    /\ Len(net[1].out) = 1

(***************************************************************************)
(* C27.  After disconnect(), until the next call, the id counter holds the *)
(* last id assigned since the latest connect(), or what it held at that    *)
(* connect() when no request was sent since.                               *)
(***************************************************************************)
C27_DisconnectKeepsCounter ==
    last.op = "disconnect"
    => request_id = (IF issued # <<>> THEN issued[Len(issued)] ELSE id_at_connect)

\* disconnect() has closed a connection on which two requests were sent.
C27_Witness ==
    /\ last.op = "disconnect"
    /\ sock = NoSock
    /\ Len(issued) = 2
    /\ request_id = issued[2]
    /\ request_id >= 2

(***************************************************************************)
(* C28.  Header lines that do not start with Content-Length: are ignored:  *)
(* for a frame with such lines before and after the Content-Length line,   *)
(* send_request returns the frame's envelope and leaves unread exactly the *)
(* bytes it leaves unread when the lines are left out.                     *)
(***************************************************************************)
C28_OtherHeaderLinesIgnored ==
    [][(ApiStep /\ last'.op = "send_request" /\ last'.sent) =>
          \A c \in HeaderCases :
              net[sock].inbound = c.bytes
              => /\ last'.res = Returned
                 /\ last'.value = c.envelope
                 /\ c.plain.res = Returned
                 /\ c.plain.value = c.envelope
                 /\ net'[sock].inbound = c.plain.rest]_vars

\* A frame with two lines before Content-Length and one after it, followed by
\* a second frame, has been read; the second frame is what is left.
C28_Witness ==
    /\ last.op = "send_request"
    /\ last.res = Returned
    /\ last.value = ErrorEnvelope
    /\ last.input.avail =
         FrameWith(<<ContentTypeLine, HintLine>>, <<LowerCaseLengthLine(3)>>,
                   ErrorEnvelope) \o ServerFrame(<<>>, ResultNull)
    /\ sock # NoSock
    /\ net[sock].inbound = ServerFrame(<<>>, ResultNull)

(***************************************************************************)
(* C29.  When no line of the header block starts with Content-Length:,     *)
(* the content length is taken as 0: send_request reads no byte after      *)
(* the header terminator, whatever follows it, and raises JSONDecodeError  *)
(* instead of returning an envelope.                                       *)
(***************************************************************************)
C29_NoLengthLineFailsDecode ==
    [][(ApiStep /\ last'.op = "send_request" /\ last'.sent) =>
          \A c \in NoLengthCases :
              net[sock].inbound = c.bytes
              => /\ last'.res = BadJson
                 /\ last'.value = PyNone
                 /\ net'[sock].inbound = c.rest]_vars

\* A header block whose only line is content-length: 16 in lower case, with a
\* 16-byte JSON body behind it: the call has failed and the body is unread.
C29_Witness ==
    /\ last.op = "send_request"
    /\ last.res = BadJson
    /\ last.input.avail =
         HeaderBlock(<<LowerCaseLengthLine(16)>>) \o Utf8Encode(JsonDumps(ResultNull))
    /\ sock # NoSock
    /\ net[sock].inbound = Utf8Encode(JsonDumps(ResultNull))
    /\ Len(net[sock].inbound) = 16

(***************************************************************************)
(* C30.  send_request takes no lock of its own.  When the two callers hold *)
(* one mutex around the whole call, no call fails, the two requests carry  *)
(* different ids, and each call returns the server's response to its own   *)
(* request, whole.  Hence a state in which both requests carry the same    *)
(* id, or in which the bytes of one response frame are split between the   *)
(* two readers, is a state of callers that are not serialized.             *)
(***************************************************************************)
ResponseFrames == [id \in 1..2 |-> ServerFrame(<<>>, ResponseTo(id))]

C30_MutexKeepsCyclesWhole ==
    threads.guarded =>
        /\ threads.lock \in {0, 1, 2}
        /\ \A t \in Callers :
             LET me == threads.c[t]
             IN  /\ me.pc # "raised"
                 /\ me.pc \notin {"start", "done"} => threads.lock = t
                 /\ me.pc = "done" =>
                      (me.res = Returned /\ me.value = ResponseTo(me.id))
                 /\ me.pc \in {"header", "body", "decode"} =>
                      /\ me.id \in DOMAIN ResponseFrames
                      /\ StartsWith(ResponseFrames[me.id], me.header \o me.body)
        /\ ( threads.c[1].pc \notin {"start", "load", "store", "build"}
             /\ threads.c[2].pc \notin {"start", "load", "store", "build"} )
           => threads.c[1].id # threads.c[2].id

\* Without the mutex: both requests are written, the server has put one
\* response frame on the stream, and each caller has received bytes of it.
C30_Witness ==
    /\ ~threads.guarded
    /\ threads.c[1].pc = "header"
    /\ threads.c[2].pc = "header"
    /\ threads.served = 1
    /\ threads.c[1].header # <<>>
    /\ threads.c[2].header # <<>>

(***************************************************************************)
(* C31.  As claimed: after a connect() that returned False, send_request   *)
(* and send_notification raise ConnectionError("Not connected") before     *)
(* anything is written, and the id counter stays where it was.  Refuted:   *)
(* connect() leaves the socket it created in self.sock, so the check       *)
(* `if not self.sock` passes, send_request advances the counter, and       *)
(* sendall raises OSError on the socket that never connected.              *)
(***************************************************************************)
C31_FailedConnectLeavesNoConnection ==
    ( /\ last.op \in SendOps
      /\ sock # NoSock
      /\ net[sock].st = "unconnected" )
    => /\ last.res = NotConnected
       /\ ~last.sent
       /\ net[sock].out = <<>>
       /\ request_id = id_at_connect

(***************************************************************************)
(* C32.  Against a server that answers each request with one frame         *)
(* carrying the request's id and writes nothing for notifications, every   *)
(* send_request, in any sequence of send_request and send_notification     *)
(* calls, returns the response whose id is the id it assigned and wrote,   *)
(* and leaves nothing unread on the stream.                                *)
(***************************************************************************)
C32_ResponsePairsWithRequest ==
    (last.op = "send_request" /\ sock # NoSock)
    => /\ last.res = Returned
       /\ last.value.t = "dict"
       /\ DictGet(last.value, KeyId) = PyIntV(request_id)
       /\ request_id = issued[Len(issued)]
       /\ net[sock].inbound = <<>>
       /\ \E i \in 1..Len(net[sock].out) :
            DictGet(net[sock].out[i].msg, KeyId) = PyIntV(request_id)

\* The second request of a connection, sent after a notification, has
\* returned the response with its id.
C32_Witness ==
    /\ last.op = "send_request"
    /\ last.res = Returned
    /\ sock # NoSock
    /\ Len(issued) = 2
    /\ Len(net[sock].out) = 3
    /\ ~HasKey(net[sock].out[2].msg, KeyId)
    /\ DictGet(last.value, KeyId) = PyIntV(issued[2])
    /\ HasKey(last.value, KeyError)

(***************************************************************************)
(* C33.  Once connect() has returned True, the run has recorded one result *)
(* per test made, in the order of the tests list, whatever each test ended *)
(* with: a verdict, an error envelope or an exception.  A test is recorded *)
(* as passed only if send_request returned an envelope without an error    *)
(* and validate_schema returned True for it, and the summary's passed      *)
(* count never exceeds its total.                                          *)
(***************************************************************************)
\* The envelope has an error: the test `result.get("error")` of the run, which
\* holds for every error object {code, message}; a member that is null or
\* empty counts as none, as it does in validate_schema.
HasError(envelope) == Truthy(DictGet(envelope, KeyError))

C33_OneResultPerProbe ==
    run.connected =>
        /\ Len(run.results) = run.i - 1
        /\ \A k \in 1..Len(run.results) : run.results[k].method = ProbeList[k]
        /\ (run.pc = "loop" /\ run.results # <<>> /\ run.results[Len(run.results)].passed)
           => /\ last.op = "send_request"
              /\ last.res = Returned
              /\ Validated
              /\ validation.name = ProbeList[Len(run.results)]
              /\ validation.result = last.value
              /\ validation.raised = ""
              /\ validation.ok
              /\ ~HasError(validation.result)
        /\ run.exit = "completed"
           => /\ run.total = Len(ProbeList)
              /\ run.passed_count <= run.total

\* A run has completed with one test passed, one answered by an error
\* envelope and one ended by an exception.
C33_Witness ==
    /\ run.exit = "completed"
    /\ run.total = 3
    /\ run.passed_count = 1
    /\ run.results[1].why = "compliant"
    /\ run.results[2].why = "error"
    /\ run.results[3].why = "exception"

(***************************************************************************)
(* C34.  The compliance run sends a request only after connect() has       *)
(* returned True: when it returned False no test is made and the id        *)
(* counter stays 0.  However the try block is left (connect() failed, the  *)
(* loop completed, an exception), the run ends after disconnect(): the     *)
(* client names no socket and every socket it created is closed.           *)
(***************************************************************************)
C34_RunEndsDisconnected ==
    /\ (request_id > 0 \/ run.results # <<>> \/ run.i > 1) => run.connected
    /\ run.pc # "start" =>
         (run.connected <=> run.exit # "connect failed")
    /\ run.exit = "connect failed" =>
         (request_id = 0 /\ \A h \in 1..Len(net) : net[h].out = <<>>)
    /\ run.pc = "exited" =>
         /\ run.exit \in {"connect failed", "completed", "exception"}
         /\ last.op = "disconnect"
         /\ sock = NoSock
         /\ \A h \in 1..Len(net) : net[h].st = "closed"

\* The run was interrupted after its first test and has ended with the
\* client disconnected.
C34_Witness ==
    /\ run.pc = "exited"
    /\ run.exit = "exception"
    /\ Len(run.results) = 1
    /\ request_id = 1
    /\ sock = NoSock
    /\ net[1].st = "closed"

=============================================================================
